---- MODULE Spec2Model ----
(***************************************************************************)
(* A model of the IMDB Lookup plugin (src/src/main.ts): the value          *)
(* transformer, the filename sanitizer, the identifier parser, the          *)
(* front-matter merge, the per-note sync state machine, the batch sync      *)
(* loop and the create-note flow.                                           *)
(*                                                                          *)
(* Strings that the code inspects character by character are sequences of  *)
(* one-character strings; names the code only compares (property names,     *)
(* folder paths, field names) are TLA+ strings.                             *)
(***************************************************************************)
EXTENDS Integers, Sequences, FiniteSets, TLC

(***************************************************************************)
(* Characters and generic string helpers (JavaScript String semantics).    *)
(***************************************************************************)
Digits == {"0", "1", "2", "3", "4", "5", "6", "7", "8", "9"}

\* JavaScript's \s restricted to the characters the model uses
WhiteSpace == {" ", "\t", "\n"}

DigitVal(c) ==
    CASE c = "0" -> 0 [] c = "1" -> 1 [] c = "2" -> 2 [] c = "3" -> 3
      [] c = "4" -> 4 [] c = "5" -> 5 [] c = "6" -> 6 [] c = "7" -> 7
      [] c = "8" -> 8 [] c = "9" -> 9

DigitChar(n) ==
    CASE n = 0 -> "0" [] n = 1 -> "1" [] n = 2 -> "2" [] n = 3 -> "3"
      [] n = 4 -> "4" [] n = 5 -> "5" [] n = 6 -> "6" [] n = 7 -> "7"
      [] n = 8 -> "8" [] n = 9 -> "9"

\* ASCII lower-casing of the letters the /i patterns of the code mention
Lower(c) ==
    CASE c = "T" -> "t" [] c = "I" -> "i" [] c = "M" -> "m" [] c = "D" -> "d"
      [] c = "B" -> "b" [] c = "C" -> "c" [] c = "O" -> "o" [] c = "L" -> "l"
      [] c = "E" -> "e"
      [] OTHER -> c

\* s.substring(from - 1, to) with 1-based inclusive bounds
Sub(s, from, to) == IF from > to THEN << >> ELSE SubSeq(s, from, to)

\* does pattern p occur in s at 1-based position i
MatchAt(s, p, i) ==
    /\ i >= 1
    /\ i + Len(p) - 1 <= Len(s)
    /\ \A k \in 1..Len(p) : s[i + k - 1] = p[k]

\* String.prototype.trim
RECURSIVE TrimLeft(_)
TrimLeft(s) ==
    IF s # << >> /\ Head(s) \in WhiteSpace THEN TrimLeft(Tail(s)) ELSE s

RECURSIVE TrimRight(_)
TrimRight(s) ==
    IF s # << >> /\ s[Len(s)] \in WhiteSpace
    THEN TrimRight(Sub(s, 1, Len(s) - 1))
    ELSE s

Trim(s) == TrimRight(TrimLeft(s))

\* the longest run of digits starting at position i (possibly empty)
RECURSIVE DigitRun(_, _)
DigitRun(s, i) ==
    IF i <= Len(s) /\ s[i] \in Digits
    THEN <<s[i]>> \o DigitRun(s, i + 1)
    ELSE << >>

\* the decimal value of a non-empty sequence of digits
RECURSIVE DecimalValue(_)
DecimalValue(ds) ==
    IF ds = << >> THEN 0
    ELSE 10 * DecimalValue(Sub(ds, 1, Len(ds) - 1)) + DigitVal(ds[Len(ds)])

\* n >= 0 written with at least w digits
RECURSIVE Decimal(_, _)
Decimal(n, w) ==
    IF n < 10 /\ w <= 1 THEN <<DigitChar(n)>>
    ELSE Decimal(n \div 10, w - 1) \o <<DigitChar(n % 10)>>

(***************************************************************************)
(* The state.                                                              *)
(***************************************************************************)
VARIABLES
    settings,   \* this.settings (IMDBLookupSettings)
    notes,      \* the vault's files: path, header (front matter), body
    folders,    \* the vault's folders (paths)
    tz,         \* the machine's local time zone: sign of its offset east of UTC
    stored,     \* the plugin data that loadData returned, and whether
                \* loadSettings has run
    batch,      \* the running syncAllMovies call, its locals and its position
    sn,         \* the running syncNote call of each caller
    create,     \* the create-note flow: the prompt and createNoteFromIMDBID
    net,        \* the last remote request issued (observation)
    notices,    \* what the last command step reported to the user (observation)
    used        \* how often each bounded operation has run

vars == <<settings, notes, folders, tz, stored, batch, sn, create, net, notices, used>>

(***************************************************************************)
(* Values of header properties and of provider fields.                     *)
(***************************************************************************)
Str(s) == [t |-> "str", s |-> s]
Num(n) == [t |-> "num", n |-> n]
List(l) == [t |-> "list", l |-> l]
\* a provider value that is not a string (the Ratings array)
Ratings == [t |-> "ratings"]
\* undefined: the property or field is not there
Absent == [t |-> "absent"]

NA == Str(<<"N", "/", "A">>)

\* JavaScript truthiness of a header value, as `!imdbId` tests it
Truthy(v) ==
    CASE v.t = "absent" -> FALSE
      [] v.t = "str" -> v.s # << >>
      [] v.t = "num" -> v.n # 0
      [] OTHER -> TRUE

(***************************************************************************)
(* transformValue (main.ts 543-586).                                       *)
(***************************************************************************)
linkFields == {"Actors", "Director", "Genre", "Writer"}

\* String.prototype.split(",")
RECURSIVE SplitComma(_, _)
SplitComma(s, acc) ==
    IF s = << >> THEN <<acc>>
    ELSE IF Head(s) = "," THEN <<acc>> \o SplitComma(Tail(s), << >>)
    ELSE SplitComma(Tail(s), Append(acc, Head(s)))

RECURSIVE MapTrim(_)
MapTrim(items) ==
    IF items = << >> THEN << >>
    ELSE <<Trim(Head(items))>> \o MapTrim(Tail(items))

\* the filter of line 556 left out: the empty pieces stay
FilterNothing(items) == items

RECURSIVE FilterNonEmpty(_)
FilterNonEmpty(items) ==
    IF items = << >> THEN << >>
    ELSE IF Len(Head(items)) > 0
         THEN <<Head(items)>> \o FilterNonEmpty(Tail(items))
         ELSE FilterNonEmpty(Tail(items))

RECURSIVE MapWikiLink(_)
MapWikiLink(items) ==
    IF items = << >> THEN << >>
    ELSE <<(<<"[", "[">> \o Head(items) \o <<"]", "]">>)>> \o MapWikiLink(Tail(items))

\* parseInt(s, 10): leading white space and one sign are skipped, then the
\* leading digits are read; NaN (ok = FALSE) when there are none
parseInt(s) ==
    LET t == TrimLeft(s)
        neg == t # << >> /\ Head(t) = "-"
        u == IF t # << >> /\ Head(t) \in {"-", "+"} THEN Tail(t) ELSE t
        ds == DigitRun(u, 1)
    IN  IF ds = << >> THEN [ok |-> FALSE, n |-> 0]
        ELSE [ok |-> TRUE, n |-> IF neg THEN 0 - DecimalValue(ds) ELSE DecimalValue(ds)]

MonthNames ==
    << <<"J","a","n">>, <<"F","e","b">>, <<"M","a","r">>, <<"A","p","r">>,
       <<"M","a","y">>, <<"J","u","n">>, <<"J","u","l">>, <<"A","u","g">>,
       <<"S","e","p">>, <<"O","c","t">>, <<"N","o","v">>, <<"D","e","c">> >>

IsLeap(y) == (y % 4 = 0 /\ y % 100 # 0) \/ y % 400 = 0

DaysIn(y, m) ==
    IF m = 2 THEN (IF IsLeap(y) THEN 29 ELSE 28)
    ELSE IF m \in {4, 6, 9, 11} THEN 30 ELSE 31

\* new Date(value) for the provider's date format "DD Mon YYYY": the string is
\* read as midnight LOCAL time.  Any other string of the model is an Invalid Date.
ParseLocalDate(s) ==
    IF /\ Len(s) = 11
       /\ s[1] \in Digits /\ s[2] \in Digits /\ s[3] = " " /\ s[7] = " "
       /\ \A k \in 8..11 : s[k] \in Digits
       /\ \E m \in 1..12 : MonthNames[m] = Sub(s, 4, 6)
    THEN LET m == CHOOSE mm \in 1..12 : MonthNames[mm] = Sub(s, 4, 6)
             y == DecimalValue(Sub(s, 8, 11))
             d == DecimalValue(Sub(s, 1, 2))
         IN  [ok |-> d >= 1 /\ d <= DaysIn(y, m), y |-> y, m |-> m, d |-> d]
    ELSE [ok |-> FALSE, y |-> 0, m |-> 0, d |-> 0]

\* the UTC calendar day of local midnight: east of Greenwich (tz > 0) local
\* midnight is still the previous day in UTC
UtcDay(date) ==
    IF tz <= 0 THEN date
    ELSE IF date.d > 1 THEN [date EXCEPT !.d = date.d - 1]
    ELSE IF date.m > 1
         THEN [date EXCEPT !.m = date.m - 1, !.d = DaysIn(date.y, date.m - 1)]
    ELSE [date EXCEPT !.y = date.y - 1, !.m = 12, !.d = 31]

\* date.toISOString().split("T")[0]
IsoDay(date) ==
    Decimal(date.y, 4) \o <<"-">> \o Decimal(date.m, 2) \o <<"-">> \o Decimal(date.d, 2)

\* transformValue with Runtime read by parseInt alone, without the test for
\* leading digits of line 563
transformValueParsedRuntime(field, value) ==
    IF value.t # "str" THEN value
    ELSE IF field \in linkFields
         THEN List(MapWikiLink(FilterNonEmpty(MapTrim(SplitComma(value.s, << >>)))))
    ELSE IF field = "Runtime" /\ parseInt(value.s).ok
         THEN Num(parseInt(value.s).n)
    ELSE IF field = "Year" /\ parseInt(value.s).ok
         THEN Num(parseInt(value.s).n)
    ELSE IF field = "Released" /\ ParseLocalDate(value.s).ok
         THEN Str(IsoDay(UtcDay(ParseLocalDate(value.s))))
    ELSE value

transformValue(field, value) ==
    IF value.t # "str" THEN value
    ELSE IF field \in linkFields
         THEN List(MapWikiLink(FilterNonEmpty(MapTrim(SplitComma(value.s, << >>)))))
    ELSE IF field = "Runtime" /\ DigitRun(value.s, 1) # << >>
         THEN Num(DecimalValue(DigitRun(value.s, 1)))
    ELSE IF field = "Year" /\ parseInt(value.s).ok
         THEN Num(parseInt(value.s).n)
    ELSE IF field = "Released" /\ ParseLocalDate(value.s).ok
         THEN Str(IsoDay(UtcDay(ParseLocalDate(value.s))))
    ELSE value

(***************************************************************************)
(* sanitizeFilename (main.ts 285-295), one operator per replace() call.    *)
(***************************************************************************)
InvalidChars == {"\\", "/", ":", "*", "?", "\"", "<", ">", "|"}

FilenameLimit == 200

\* the pieces a global replace leaves, one per character of the string, put
\* together again from place lo to place hi
RECURSIVE Flatten(_, _, _)
Flatten(pieces, lo, hi) ==
    IF lo > hi THEN << >>
    ELSE IF lo = hi THEN pieces[lo]
    ELSE LET mid == (lo + hi) \div 2
         IN  Flatten(pieces, lo, mid) \o Flatten(pieces, mid + 1, hi)

\* .replace(/: /g, " - ")
ReplaceColonSpace(s) ==
    Flatten([i \in 1..Len(s) |->
                IF s[i] = ":" /\ i < Len(s) /\ s[i + 1] = " " THEN <<" ", "-", " ">>
                ELSE IF s[i] = " " /\ i > 1 /\ s[i - 1] = ":" THEN << >>
                ELSE <<s[i]>>], 1, Len(s))

\* .replace(/[\\/:*?"<>|]/g, "-")
ReplaceInvalid(s) == [i \in 1..Len(s) |-> IF s[i] \in InvalidChars THEN "-" ELSE s[i]]

\* .replace(/\s+/g, " ")
CollapseWhiteSpace(s) ==
    Flatten([i \in 1..Len(s) |->
                IF s[i] \notin WhiteSpace THEN <<s[i]>>
                ELSE IF i > 1 /\ s[i - 1] \in WhiteSpace THEN << >>
                ELSE <<" ">>], 1, Len(s))

\* .replace(/^\.+/, "")
RECURSIVE StripLeadingDots(_)
StripLeadingDots(s) ==
    IF s # << >> /\ Head(s) = "." THEN StripLeadingDots(Tail(s)) ELSE s

\* .replace(/\.+$/, "")
RECURSIVE StripTrailingDots(_)
StripTrailingDots(s) ==
    IF s # << >> /\ s[Len(s)] = "."
    THEN StripTrailingDots(Sub(s, 1, Len(s) - 1))
    ELSE s

\* .replace(/-+/g, "-")
CollapseDashes(s) ==
    Flatten([i \in 1..Len(s) |->
                IF s[i] = "-" /\ i < Len(s) /\ s[i + 1] = "-" THEN << >>
                ELSE <<s[i]>>], 1, Len(s))

\* sanitizeFilename with the replacements of lines 287 and 288 in the other
\* order: the colon is made a dash before ": " is looked for
sanitizeFilenameInvalidFirst(name) ==
    LET r == Trim(CollapseDashes(StripTrailingDots(StripLeadingDots(
                 CollapseWhiteSpace(ReplaceColonSpace(ReplaceInvalid(name)))))))
    IN  Sub(r, 1, IF Len(r) < FilenameLimit THEN Len(r) ELSE FilenameLimit)

sanitizeFilename(name) ==
    LET r == Trim(CollapseDashes(StripTrailingDots(StripLeadingDots(
                 CollapseWhiteSpace(ReplaceInvalid(ReplaceColonSpace(name)))))))
    IN  Sub(r, 1, IF Len(r) < FilenameLimit THEN Len(r) ELSE FilenameLimit)

(***************************************************************************)
(* parseIMDBId (main.ts 167-190).  The result is [ok, id].                 *)
(***************************************************************************)
LowerAll(s) == [i \in 1..Len(s) |-> Lower(s[i])]

UrlPrefix == <<"i","m","d","b",".","c","o","m","/","t","i","t","l","e","/","t","t">>

\* trimmed.match(/imdb\.com\/title\/(tt\d+)/i): the leftmost occurrence of the
\* prefix that is followed by at least one digit; group 1 is "tt" as written
\* and the whole run of digits
UrlMatches(s) ==
    {i \in 1..Len(s) :
        MatchAt(LowerAll(s), UrlPrefix, i) /\ DigitRun(s, i + Len(UrlPrefix)) # << >>}

\* parseIMDBId with /^(tt\d+)$/i for the identifier: any number of digits
parseIMDBIdAnyLength(input) ==
    LET trimmed == Trim(input)
        hits == UrlMatches(trimmed)
    IN  IF hits # {}
        THEN LET i == CHOOSE k \in hits : \A j \in hits : k <= j
                 from == i + Len(UrlPrefix) - 2
             IN  [ok |-> TRUE,
                  id |-> Sub(trimmed, from, from + 1)
                           \o DigitRun(trimmed, i + Len(UrlPrefix))]
        ELSE IF /\ Len(trimmed) >= 3
                /\ Lower(trimmed[1]) = "t" /\ Lower(trimmed[2]) = "t"
                /\ \A k \in 3..Len(trimmed) : trimmed[k] \in Digits
        THEN [ok |-> TRUE, id |-> trimmed]
        ELSE [ok |-> FALSE, id |-> << >>]

parseIMDBId(input) ==
    LET trimmed == Trim(input)
        hits == UrlMatches(trimmed)
    IN  IF hits # {}
        THEN LET i == CHOOSE k \in hits : \A j \in hits : k <= j
                 from == i + Len(UrlPrefix) - 2
             IN  [ok |-> TRUE,
                  id |-> Sub(trimmed, from, from + 1)
                           \o DigitRun(trimmed, i + Len(UrlPrefix))]
        ELSE IF /\ Len(trimmed) >= 9
                /\ Lower(trimmed[1]) = "t" /\ Lower(trimmed[2]) = "t"
                /\ \A k \in 3..Len(trimmed) : trimmed[k] \in Digits
        THEN [ok |-> TRUE, id |-> trimmed]
        ELSE [ok |-> FALSE, id |-> << >>]

(***************************************************************************)
(* Bounds of the model and the data it runs on.                            *)
(***************************************************************************)
\* the files of the vault are numbered 1..NumNotes
NumNotes == 3

\* how many times the batch command is run
MaxRuns == 1

\* how many times the sync-current command is run
MaxSyncs == 2

\* how many edits of the field mappings the settings tab gets
MaxEdits == 1

NoteIds == 1..NumNotes

\* the header properties the model knows
Props ==
    {"imdbid", "title", "year", "runtime", "genre", "director", "released", "type",
     "rated"}

\* the provider fields the model knows
Fields ==
    {"Title", "Year", "Type", "Runtime", "Genre", "Director", "Released", "Ratings"}

MovieType == <<"m", "o", "v", "i", "e">>
SeriesType == <<"s", "e", "r", "i", "e", "s">>

IdA == <<"t", "t", "1", "2", "3", "4", "5", "6", "7">>

\* two provider records (OMDBResponse with Response "True")
RecMovie ==
    [f \in Fields |->
        CASE f = "Title" -> Str(<<"U", "p", ":", " ", "2">>)
          [] f = "Year" -> Str(<<"2", "0", "1", "7">>)
          [] f = "Type" -> Str(MovieType)
          [] f = "Runtime" -> Str(<<"9", "6", " ", "m", "i", "n">>)
          [] f = "Genre" -> Str(<<"A", ",", " ", "B">>)
          [] f = "Released" -> Str(<<"0", "1", " ", "M", "a", "y", " ", "2", "0", "1", "7">>)
          [] f = "Ratings" -> Ratings
          [] OTHER -> Absent]

RecSeries ==
    [f \in Fields |->
        CASE f = "Title" -> Str(<<"L", "o", "s", "t">>)
          [] f = "Year" -> Str(<<"2", "0", "0", "4", "-">>)
          [] f = "Type" -> Str(SeriesType)
          [] f = "Runtime" -> NA
          [] f = "Genre" -> Str(<<"A">>)
          [] OTHER -> Absent]

Records == {RecMovie, RecSeries}

\* what requestUrl can come back with: a transport failure (fetchOMDBData
\* returns null), Response "False", or a record
Responses ==
    {[kind |-> "null", data |-> RecSeries], [kind |-> "False", data |-> RecSeries]}
        \cup {[kind |-> "True", data |-> r] : r \in Records}

(***************************************************************************)
(* DEFAULT_SETTINGS (main.ts 31-64), the field mappings restricted to the  *)
(* fields of the model.                                                    *)
(***************************************************************************)
DefaultMappings ==
    << [omdbField |-> "Title", noteProperty |-> "title", enabled |-> TRUE],
       [omdbField |-> "Year", noteProperty |-> "year", enabled |-> TRUE],
       [omdbField |-> "Runtime", noteProperty |-> "runtime", enabled |-> TRUE],
       [omdbField |-> "Genre", noteProperty |-> "genre", enabled |-> TRUE],
       [omdbField |-> "Type", noteProperty |-> "type", enabled |-> FALSE] >>

DEFAULT_SETTINGS ==
    [apiKey |-> "",
     targetFolders |-> <<"Movies">>,
     imdbIdProperty |-> "imdbid",
     renameNotes |-> FALSE,
     newNoteFolderMovies |-> "Movies",
     newNoteFolderSeries |-> "TV Shows",
     templateFileMovies |-> "",
     templateFileSeries |-> "",
     fieldMappings |-> DefaultMappings]

(***************************************************************************)
(* loadSettings (main.ts 111-131).  The plugin data is the object that     *)
(* loadData returns: the keys it has, and their values; on a first run it  *)
(* has none.                                                               *)
(***************************************************************************)
DataKeys == {"apiKey", "targetFolder", "targetFolders", "fieldMappings"}

NoData ==
    [keys |-> {},
     val |-> [apiKey |-> "", targetFolder |-> "", targetFolders |-> << >>,
              fieldMappings |-> << >>]]

\* nothing was stored, and loadSettings has run
NoStored == [data |-> NoData, done |-> TRUE]

\* the loop without the test of line 127: every default is pushed
AllDefaults(mappings) == DefaultMappings

\* the default mappings that the loop of lines 126-130 pushes
MissingDefaults(mappings) ==
    LET existingFields == {mappings[i].omdbField : i \in 1..Len(mappings)}
        IsMissing(m) == m.omdbField \notin existingFields
    IN  SelectSeq(DefaultMappings, IsMissing)

loadSettings(data) ==
    LET assigned == [k \in DOMAIN DEFAULT_SETTINGS |->
                        IF k \in data.keys THEN data.val[k] ELSE DEFAULT_SETTINGS[k]]
        migrated == IF /\ "targetFolder" \in data.keys
                       /\ data.val.targetFolder # ""
                       /\ "targetFolders" \notin data.keys
                    THEN [assigned EXCEPT !.targetFolders = <<data.val.targetFolder>>]
                    ELSE assigned
    IN  [migrated EXCEPT !.fieldMappings = @ \o MissingDefaults(@)]

\* onload runs loadSettings (main.ts 84-85)
LoadSettings ==
    /\ ~stored.done
    /\ settings' = loadSettings(stored.data)
    /\ stored' = [stored EXCEPT !.done = TRUE]
    /\ UNCHANGED <<notes, folders, tz, batch, sn, create, net, notices, used>>

(***************************************************************************)
(* The vault: folders, the notes in them, one file that is not a note.     *)
(***************************************************************************)
Root == "/"

FolderParent(path) == IF path = "Movies/Sub" THEN "Movies" ELSE Root

\* where file i lives
Place(i) ==
    CASE i % 4 = 1 -> "Movies"
      [] i % 4 = 2 -> "Movies/Sub"
      [] i % 4 = 3 -> "Inbox"
      [] OTHER -> "TV Shows"

\* a file of the vault that is not a Markdown file
ImagePath == "Movies/poster.png"
ImageParent == "Movies"

EmptyFm == [p \in Props |-> Absent]

NoHeader == [has |-> FALSE, fm |-> EmptyFm]

HeaderNoId == [has |-> TRUE, fm |-> [EmptyFm EXCEPT !["rated"] = Str(<<"P", "G">>)]]

HeaderWithId ==
    [has |-> TRUE,
     fm |-> [EmptyFm EXCEPT !["imdbid"] = Str(IdA), !["rated"] = Str(<<"P", "G">>)]]

BaseName(i) == <<"n", DigitChar(i % 10)>>

\* vault.getAbstractFileByPath(path) for a folder setting
ResolveKind(path) ==
    IF path \in folders THEN "folder"
    ELSE IF path = ImagePath THEN "file"
    ELSE "none"

\* the notes at a path (parent folder, base name); the extension is .md
NotesAt(parent, base) ==
    {i \in NoteIds : notes[i].exists /\ notes[i].parent = parent /\ notes[i].basename = base}

RECURSIVE SetToSeq(_)
SetToSeq(S) ==
    IF S = {} THEN << >>
    ELSE LET x == CHOOSE y \in S : \A z \in S : y <= z
         IN  <<x>> \o SetToSeq(S \ {x})

SubFolders(folder) == {g \in folders : FolderParent(g) = folder /\ g # folder}

\* folder.children: the notes (by number), the image, then the sub-folders
Children(folder) ==
    [j \in 1..Len(SetToSeq({i \in NoteIds : notes[i].exists /\ notes[i].parent = folder}))
        |-> [kind |-> "file", ext |-> "md",
             id |-> SetToSeq({i \in NoteIds : notes[i].exists /\ notes[i].parent = folder})[j],
             path |-> folder]]
    \o (IF ImageParent = folder
        THEN << [kind |-> "file", ext |-> "png", id |-> 0, path |-> folder] >>
        ELSE << >>)
    \o (IF "Movies/Sub" \in SubFolders(folder)
        THEN << [kind |-> "folder", ext |-> "", id |-> 0, path |-> "Movies/Sub"] >>
        ELSE << >>)

\* getMarkdownFilesRecursively (main.ts 401-411): CollectMarkdown is its loop
RECURSIVE CollectMarkdown(_)
CollectMarkdown(children) ==
    IF children = << >> THEN << >>
    ELSE LET child == Head(children)
         IN  (IF child.kind = "file" /\ child.ext = "md" THEN <<child.id>>
              ELSE IF child.kind = "folder" THEN CollectMarkdown(Children(child.path))
              ELSE << >>)
             \o CollectMarkdown(Tail(children))

getMarkdownFilesRecursively(folder) == CollectMarkdown(Children(folder))

(***************************************************************************)
(* updateNoteFrontmatter (main.ts 479-496): ApplyMappings is the loop of   *)
(* the mutator that processFrontMatter runs on the note's header.          *)
(***************************************************************************)
\* ApplyMappings without the test of `enabled`
RECURSIVE ApplyMappingsAll(_, _, _)
ApplyMappingsAll(fm, data, mappings) ==
    IF mappings = << >> THEN fm
    ELSE LET mapping == Head(mappings)
             value == data[mapping.omdbField]
         IN  IF value # Absent /\ value # NA
             THEN ApplyMappingsAll(
                      [fm EXCEPT ![mapping.noteProperty] =
                                     transformValue(mapping.omdbField, value)],
                      data, Tail(mappings))
             ELSE ApplyMappingsAll(fm, data, Tail(mappings))

RECURSIVE ApplyMappings(_, _, _)
ApplyMappings(fm, data, mappings) ==
    IF mappings = << >> THEN fm
    ELSE LET mapping == Head(mappings)
             value == data[mapping.omdbField]
         IN  IF mapping.enabled /\ value # Absent /\ value # NA
             THEN ApplyMappings(
                      [fm EXCEPT ![mapping.noteProperty] =
                                     transformValue(mapping.omdbField, value)],
                      data, Tail(mappings))
             ELSE ApplyMappings(fm, data, Tail(mappings))

\* the header processFrontMatter leaves behind: a note without a header gets one
updateNoteFrontmatter(header, data) ==
    [has |-> TRUE,
     fm |-> ApplyMappings(IF header.has THEN header.fm ELSE EmptyFm,
                          data, settings.fieldMappings)]

(***************************************************************************)
(* The base name of a title: renameNoteToTitle 504-515 and                 *)
(* createNoteFromIMDBID 213-219 build it the same way.                     *)
(***************************************************************************)
\* `x || fallback` for a provider field
OrElse(v, fallback) == IF v.t = "str" /\ v.s # << >> THEN v.s ELSE fallback

TitledName(title, year, type) ==
    sanitizeFilename(
        IF type = MovieType /\ year # << >>
        THEN title \o <<" ", "(">> \o year \o <<")">>
        ELSE title)

(***************************************************************************)
(* syncNote (main.ts 413-464), one running call per caller.                *)
(***************************************************************************)
Callers == {"batch", "current"}

NoObs ==
    [hadHeader |-> FALSE, hadId |-> FALSE, hadKey |-> FALSE, threw |-> FALSE,
     fetch |-> "none", write |-> "none", rename |-> "none"]

\* the last completed merge of the sync-current command (observation): the
\* file, the record it merged, the rename setting and the number of mapping
\* edits at that moment, the header it left and what became of the rename
NoMerge ==
    [file |-> 0, data |-> RecSeries, edits |-> 0, renameNotes |-> FALSE,
     header |-> [has |-> FALSE, fm |-> [p \in Props |-> Absent]], rename |-> "none"]

IdleCall ==
    [pc |-> "idle", file |-> 0, imdbId |-> Absent, data |-> RecSeries,
     newBase |-> << >>, result |-> "none", obs |-> NoObs, last |-> NoMerge]

NoRequest == [by |-> "none", key |-> "", id |-> Absent]

\* the header the metadata cache reports for a file
CachedFrontmatter(f) ==
    IF notes[f].exists /\ notes[f].header.has THEN notes[f].header.fm ELSE EmptyFm

HasFrontmatter(f) == notes[f].exists /\ notes[f].header.has

\* what the call observes of the state on entry
EntryObs(f, threw) ==
    [NoObs EXCEPT !.hadHeader = HasFrontmatter(f),
                  !.hadId = Truthy(CachedFrontmatter(f)[settings.imdbIdProperty]),
                  !.hadKey = settings.apiKey # "",
                  !.threw = threw]

\* EntryOutcome with the API key tested before the header
EntryOutcomeKeyFirst(f, threw) ==
    IF threw THEN "threw"
    ELSE IF settings.apiKey = "" THEN "error"
    ELSE IF ~HasFrontmatter(f) THEN "skipped"
    ELSE IF ~Truthy(CachedFrontmatter(f)[settings.imdbIdProperty]) THEN "skipped"
    ELSE "fetch"

\* lines 417-440: the outcome of the guards, "fetch" when the request goes out
EntryOutcome(f, threw) ==
    IF threw THEN "threw"
    ELSE IF ~HasFrontmatter(f) THEN "skipped"
    ELSE IF ~Truthy(CachedFrontmatter(f)[settings.imdbIdProperty]) THEN "skipped"
    ELSE IF settings.apiKey = "" THEN "error"
    ELSE "fetch"

\* Tally with a catch block that does not count the exception
TallyUncounted(b, result, obs) ==
    [b EXCEPT !.synced = IF result = "synced" THEN @ + 1 ELSE @,
              !.skipped = IF result = "skipped" THEN @ + 1 ELSE @,
              !.errors = IF result = "error" THEN @ + 1 ELSE @,
              !.noId = IF ~obs.threw /\ ~(obs.hadHeader /\ obs.hadId) THEN @ + 1 ELSE @,
              !.fetchFailed = IF obs.fetch \in {"null", "False"} THEN @ + 1 ELSE @,
              !.pc = "sleep"]

\* Tally without the try/catch: an exception of syncNote ends the loop
TallyEscaping(b, result, obs) ==
    [b EXCEPT !.synced = IF result = "synced" THEN @ + 1 ELSE @,
              !.skipped = IF result = "skipped" THEN @ + 1 ELSE @,
              !.errors = IF result = "error" THEN @ + 1 ELSE @,
              !.noId = IF ~obs.threw /\ ~(obs.hadHeader /\ obs.hadId) THEN @ + 1 ELSE @,
              !.fetchFailed = IF obs.fetch \in {"null", "False"} THEN @ + 1 ELSE @,
              !.pc = IF result = "threw" THEN "done" ELSE "sleep"]

\* lines 385-391 of syncAllMovies: one counter per finished file
Tally(b, result, obs) ==
    [b EXCEPT !.synced = IF result = "synced" THEN @ + 1 ELSE @,
              !.skipped = IF result = "skipped" THEN @ + 1 ELSE @,
              !.errors = IF result \notin {"synced", "skipped"} THEN @ + 1 ELSE @,
              !.noId = IF ~obs.threw /\ ~(obs.hadHeader /\ obs.hadId) THEN @ + 1 ELSE @,
              !.fetchFailed = IF obs.fetch \in {"null", "False"} THEN @ + 1 ELSE @,
              !.pc = "sleep"]

\* the batch has issued a request for its current file (observation): minGap is
\* the least number of delays completed between two requests of the run
Requested(b) ==
    [b EXCEPT !.requests = @ + 1,
              !.requestsThisFile = @ + 1,
              !.delaysSinceRequest = 0,
              !.minGap = IF b.requests = 0 THEN @
                         ELSE IF b.requests = 1 \/ b.delaysSinceRequest < @
                              THEN b.delaysSinceRequest
                         ELSE @]

\* the notice of a finished call (none in silent mode)
ResultNotice(p, f, result, obs) ==
    IF p = "batch" \/ result = "threw" THEN << >>
    ELSE IF result = "synced" THEN <<"Synced">>
    ELSE IF result = "skipped"
         THEN (IF ~HasFrontmatter(f) THEN <<"NoFrontmatter">> ELSE <<"NoIdProperty">>)
    ELSE IF ~obs.hadKey THEN <<"NoApiKey">>
    ELSE IF obs.fetch \in {"null", "False"} THEN <<"OMDBError">>
    ELSE <<"ErrorSyncing">>

\* the call of caller p returns `result`: the batch tallies it
Return(p, call, result, obs, b, said) ==
    /\ sn' = [sn EXCEPT ![p] = [call EXCEPT !.pc = "idle", !.result = result, !.obs = obs,
                                             !.last = IF result = "synced" /\ p = "current"
                                                      THEN [@ EXCEPT !.rename = obs.rename]
                                                      ELSE @]]
    /\ batch' = IF p = "batch" THEN Tally(b, result, obs) ELSE b
    /\ notices' = said \o ResultNotice(p, call.file, result, obs)

\* syncNote(f) is called by p and runs to its first await; b is the caller's
\* batch record at the call
EnterSyncNote(p, f, threw, b, said) ==
    LET outcome == EntryOutcome(f, threw)
        obs == EntryObs(f, threw)
        call == [IdleCall EXCEPT !.file = f,
                                 !.imdbId = CachedFrontmatter(f)[settings.imdbIdProperty],
                                 !.last = sn[p].last]
    IN  IF outcome = "fetch"
        THEN /\ sn' = [sn EXCEPT ![p] = [call EXCEPT !.pc = "fetching", !.obs = obs]]
             /\ net' = [by |-> p, key |-> settings.apiKey, id |-> call.imdbId]
             /\ batch' = IF p = "batch"
                         THEN Requested(b)
                         ELSE b
             /\ notices' = said
        ELSE /\ Return(p, call, outcome, obs, b, said)
             /\ net' = net

\* FetchReturn with a retry: a transport failure sends the request again
FetchReturnRetrying(p, resp) ==
    /\ sn[p].pc = "fetching"
    /\ LET obs == [sn[p].obs EXCEPT !.fetch = resp.kind]
       IN  IF resp.kind = "null"
           THEN /\ batch' = IF p = "batch" THEN Requested(batch) ELSE batch
                /\ UNCHANGED <<sn, notices>>
           ELSE IF resp.kind # "True"
           THEN Return(p, sn[p], "error", obs, batch, << >>)
           ELSE /\ sn' = [sn EXCEPT ![p] = [@ EXCEPT !.pc = "merging",
                                                     !.data = resp.data,
                                                     !.obs = obs]]
                /\ UNCHANGED <<batch, notices>>
    /\ UNCHANGED <<settings, notes, folders, tz, stored, create, net, used>>

\* FetchReturn without the test of line 444: whatever comes back is merged
FetchReturnTrusting(p, resp) ==
    /\ sn[p].pc = "fetching"
    /\ sn' = [sn EXCEPT ![p] = [@ EXCEPT !.pc = "merging",
                                         !.data = resp.data,
                                         !.obs = [sn[p].obs EXCEPT !.fetch = resp.kind]]]
    /\ UNCHANGED <<batch, notices>>
    /\ UNCHANGED <<settings, notes, folders, tz, stored, create, net, used>>

\* requestUrl settles (fetchOMDBData 469-476, syncNote 443-448)
FetchReturn(p, resp) ==
    /\ sn[p].pc = "fetching"
    /\ LET obs == [sn[p].obs EXCEPT !.fetch = resp.kind]
       IN  IF resp.kind # "True"
           THEN Return(p, sn[p], "error", obs, batch, << >>)
           ELSE /\ sn' = [sn EXCEPT ![p] = [@ EXCEPT !.pc = "merging",
                                                     !.data = resp.data,
                                                     !.obs = obs]]
                /\ UNCHANGED <<batch, notices>>
    /\ UNCHANGED <<settings, notes, folders, tz, stored, create, net, used>>

\* renameNoteToTitle without the "name is already correct" test of 519-522
RenameTargetAlways(f, data) ==
    LET title == OrElse(data["Title"], << >>)
        newBaseName == TitledName(title, OrElse(data["Year"], << >>),
                                  OrElse(data["Type"], MovieType))
    IN  IF title = << >> THEN [kind |-> "notitle", base |-> << >>]
        ELSE [kind |-> "rename", base |-> newBaseName]

\* renameNoteToTitle up to its await (main.ts 503-526): "notitle", "same", or
\* the new base name to rename to
RenameTarget(f, data) ==
    LET title == OrElse(data["Title"], << >>)
        newBaseName == TitledName(title, OrElse(data["Year"], << >>),
                                  OrElse(data["Type"], MovieType))
    IN  IF title = << >> THEN [kind |-> "notitle", base |-> << >>]
        ELSE IF notes[f].basename = newBaseName THEN [kind |-> "same", base |-> newBaseName]
        ELSE [kind |-> "rename", base |-> newBaseName]

\* processFrontMatter settles (syncNote 450-458): ok = FALSE is a write failure
MergeDone(p, ok) ==
    /\ sn[p].pc = "merging"
    /\ LET f == sn[p].file
           target == RenameTarget(f, sn[p].data)
           obs == [sn[p].obs EXCEPT !.write = IF ok THEN "ok" ELSE "fail"]
           merged == IF p # "current" THEN sn[p].last
                     ELSE [file |-> f, data |-> sn[p].data,
                           edits |-> used.edits,
                           renameNotes |-> settings.renameNotes,
                           header |-> updateNoteFrontmatter(notes[f].header, sn[p].data),
                           rename |-> "pending"]
       IN  IF ~ok
           THEN /\ Return(p, sn[p], "error", obs, batch, << >>)
                /\ notes' = notes
           ELSE /\ notes' = [notes EXCEPT ![f].header =
                                              updateNoteFrontmatter(@, sn[p].data)]
                /\ IF settings.renameNotes /\ target.kind = "rename"
                   THEN /\ sn' = [sn EXCEPT ![p] = [@ EXCEPT !.pc = "renaming",
                                                             !.newBase = target.base,
                                                             !.obs = obs,
                                                             !.last = merged]]
                        /\ UNCHANGED <<batch, notices>>
                   ELSE Return(p, [sn[p] EXCEPT !.last = merged], "synced",
                               [obs EXCEPT !.rename =
                                   IF settings.renameNotes THEN target.kind ELSE "none"],
                               batch, << >>)
    /\ UNCHANGED <<settings, folders, tz, stored, create, net, used>>

\* RenameDone without the try/catch of renameNoteToTitle: a failed rename
\* reaches the catch of syncNote
RenameDoneEscaping(p, ok) ==
    /\ sn[p].pc = "renaming"
    /\ LET f == sn[p].file
           done == ok /\ NotesAt(notes[f].parent, sn[p].newBase) = {}
       IN  /\ notes' = IF done THEN [notes EXCEPT ![f].basename = sn[p].newBase] ELSE notes
           /\ Return(p, sn[p], IF done THEN "synced" ELSE "error",
                     [sn[p].obs EXCEPT !.rename = IF done THEN "ok" ELSE "fail"],
                     batch, << >>)
    /\ UNCHANGED <<settings, folders, tz, stored, create, net, used>>

\* fileManager.renameFile settles (renameNoteToTitle 528-533); it fails when a
\* file already is at the new path
RenameDone(p, ok) ==
    /\ sn[p].pc = "renaming"
    /\ LET f == sn[p].file
           done == ok /\ NotesAt(notes[f].parent, sn[p].newBase) = {}
       IN  /\ notes' = IF done THEN [notes EXCEPT ![f].basename = sn[p].newBase] ELSE notes
           /\ Return(p, sn[p], "synced",
                     [sn[p].obs EXCEPT !.rename = IF done THEN "ok" ELSE "fail"],
                     batch, << >>)
    /\ UNCHANGED <<settings, folders, tz, stored, create, net, used>>

(***************************************************************************)
(* syncAllMovies (main.ts 343-399).                                        *)
(***************************************************************************)
IdleBatch ==
    [pc |-> "idle", files |-> << >>, i |-> 0, missingFolders |-> << >>,
     synced |-> 0, skipped |-> 0, errors |-> 0,
     noId |-> 0, fetchFailed |-> 0,
     requests |-> 0, requestsThisFile |-> 0, delaysSinceRequest |-> 0, minGap |-> 0,
     delays |-> 0, targets |-> << >>, touched |-> {}]

\* ResolveTargets with `return` for `continue`: a missing folder ends the loop
RECURSIVE ResolveTargetsStopping(_)
ResolveTargetsStopping(targets) ==
    IF targets = << >> THEN [files |-> << >>, missingFolders |-> << >>]
    ELSE LET folderPath == Head(targets)
             rest == ResolveTargetsStopping(Tail(targets))
         IN  IF ResolveKind(folderPath) # "folder"
             THEN [files |-> << >>, missingFolders |-> <<folderPath>>]
             ELSE [rest EXCEPT !.files = getMarkdownFilesRecursively(folderPath) \o @]

\* lines 355-365: the files of the target folders and the folders not found
RECURSIVE ResolveTargets(_)
ResolveTargets(targets) ==
    IF targets = << >> THEN [files |-> << >>, missingFolders |-> << >>]
    ELSE LET folderPath == Head(targets)
             rest == ResolveTargets(Tail(targets))
         IN  IF ResolveKind(folderPath) # "folder"
             THEN [rest EXCEPT !.missingFolders = <<folderPath>> \o @]
             ELSE [rest EXCEPT !.files = getMarkdownFilesRecursively(folderPath) \o @]

\* the loop reaches file number i of the captured list: syncNote is called
LoopStep(b, i, threw, said) ==
    EnterSyncNote("batch", b.files[i], threw,
                  [b EXCEPT !.pc = "run", !.i = i, !.requestsThisFile = 0,
                            !.touched = @ \cup {b.files[i]}],
                  said)

\* the command: guards, the file list, then the first file up to its first await
SyncAllMovies(threw) ==
    /\ batch.pc \in {"idle", "done"}
    /\ used.runs < MaxRuns
    /\ used' = [used EXCEPT !.runs = @ + 1]
    /\ LET found == ResolveTargets(settings.targetFolders)
           warning == IF found.missingFolders # << >> THEN <<"FoldersNotFound">> ELSE << >>
       IN  IF settings.apiKey = ""
           THEN notices' = <<"NoApiKey">> /\ UNCHANGED <<batch, sn, net>>
           ELSE IF Len(settings.targetFolders) = 0
           THEN notices' = <<"NoTargetFolders">> /\ UNCHANGED <<batch, sn, net>>
           ELSE IF Len(found.files) = 0
           THEN /\ notices' = warning \o <<"NoMarkdownFiles">>
                /\ batch' = [IdleBatch EXCEPT !.missingFolders = found.missingFolders,
                                              !.targets = settings.targetFolders]
                /\ UNCHANGED <<sn, net>>
           ELSE LoopStep([IdleBatch EXCEPT !.files = found.files,
                                           !.missingFolders = found.missingFolders,
                                           !.targets = settings.targetFolders],
                         1, threw, warning \o <<"Starting">>)
    /\ UNCHANGED <<settings, notes, folders, tz, stored, create>>

\* sleep(250) settles (main.ts 393-398): the next file, or the summary
SleepMs == 250

SleepDone(threw) ==
    /\ batch.pc = "sleep"
    /\ IF batch.i = Len(batch.files)
       THEN /\ batch' = [batch EXCEPT !.pc = "done", !.delays = @ + 1]
            /\ notices' = <<"SyncComplete">>
            /\ UNCHANGED <<sn, net>>
       ELSE LoopStep([batch EXCEPT !.delaysSinceRequest = @ + 1, !.delays = @ + 1],
                     batch.i + 1, threw, << >>)
    /\ UNCHANGED <<settings, notes, folders, tz, stored, create, used>>

(***************************************************************************)
(* syncCurrentNote (main.ts 137-150); active = 0 is no active file,        *)
(* active = -1 the image.                                                  *)
(***************************************************************************)
SyncCurrentNote(active, threw) ==
    /\ sn["current"].pc = "idle"
    /\ used.syncs < MaxSyncs
    /\ IF active = 0
       THEN notices' = <<"NoActiveFile">> /\ UNCHANGED <<sn, net, batch, used>>
       ELSE IF active = -1
       THEN notices' = <<"NotMarkdown">> /\ UNCHANGED <<sn, net, batch, used>>
       ELSE /\ notes[active].exists
            /\ EnterSyncNote("current", active, threw, batch, << >>)
            /\ used' = [used EXCEPT !.syncs = @ + 1]
    /\ UNCHANGED <<settings, notes, folders, tz, stored, create>>

(***************************************************************************)
(* The settings tab (main.ts 682-843): each onChange handler.              *)
(***************************************************************************)
ApiKeys == {"", "k"}

TargetChoices ==
    { <<"Movies">>, <<"Missing", ImagePath, "Movies/Sub">>,
      <<"Movies", "Movies/Sub">>, << >> }

SetApiKey(value) ==
    /\ value # settings.apiKey
    /\ settings' = [settings EXCEPT !.apiKey = value]
    /\ UNCHANGED <<notes, folders, tz, stored, batch, sn, create, net, notices, used>>

SetTargetFolders(value) ==
    /\ value # settings.targetFolders
    /\ settings' = [settings EXCEPT !.targetFolders = value]
    /\ UNCHANGED <<notes, folders, tz, stored, batch, sn, create, net, notices, used>>

SetRenameNotes(value) ==
    /\ value # settings.renameNotes
    /\ settings' = [settings EXCEPT !.renameNotes = value]
    /\ UNCHANGED <<notes, folders, tz, stored, batch, sn, create, net, notices, used>>

(***************************************************************************)
(* The batch command with the settings tab open.                           *)
(***************************************************************************)
\* the create-note flow at rest; input is the text of the prompt's field when
\* it was submitted; filename, folderPath, file and result keep what the last
\* flow derived and how it ended (observation)
IdleCreate ==
    [pc |-> "idle", input |-> << >>, imdbId |-> << >>, data |-> RecSeries,
     filename |-> << >>,
     folderPath |-> "", templatePath |-> "", content |-> << >>, file |-> 0,
     result |-> "none"]

\* the headers the notes start with: the notes of the target folders vary
InitHeaders ==
    {hs \in [NoteIds -> {NoHeader, HeaderNoId, HeaderWithId}] :
        \A i \in NoteIds : Place(i) \notin {"Movies", "Movies/Sub"} => hs[i] = HeaderWithId}

Init ==
    /\ settings = DEFAULT_SETTINGS
    /\ \E hs \in InitHeaders :
          notes = [i \in NoteIds |->
                      [exists |-> TRUE, parent |-> Place(i), basename |-> BaseName(i),
                       header |-> hs[i], body |-> "body"]]
    /\ folders = {"Movies", "Movies/Sub", "TV Shows", "Inbox"}
    /\ tz = 0
    /\ stored = NoStored
    /\ batch = IdleBatch
    /\ sn = [p \in Callers |-> IdleCall]
    /\ create = IdleCreate
    /\ net = NoRequest
    /\ notices = << >>
    /\ used = [runs |-> 0, syncs |-> 0, edits |-> 0, creates |-> 0]

Next ==
    \/ \E threw \in BOOLEAN : SyncAllMovies(threw)
    \/ \E threw \in BOOLEAN : SleepDone(threw)
    \/ \E resp \in Responses : FetchReturn("batch", resp)
    \/ \E ok \in BOOLEAN : MergeDone("batch", ok)
    \/ \E ok \in BOOLEAN : RenameDone("batch", ok)
    \/ \E value \in ApiKeys : SetApiKey(value)
    \/ \E value \in TargetChoices : SetTargetFolders(value)
    \/ \E value \in BOOLEAN : SetRenameNotes(value)

Spec == Init /\ [][Next]_vars

(***************************************************************************)
(* Properties of the batch sync.                                           *)
(***************************************************************************)
Range(s) == {s[k] : k \in 1..Len(s)}

\* the files of the run whose processing has completed
Finished == IF batch.pc = "run" THEN batch.i - 1 ELSE batch.i

\* C1: in a batch run the three counters add up to the number of files whose
\* processing has completed (all N at the end), skipped is the number of files
\* found without header or identifier, errors is at least the number of
\* failed fetches; a file in flight has not been counted yet.
C1_BatchTally ==
    batch.pc \in {"run", "sleep", "done"} =>
        /\ batch.synced + batch.skipped + batch.errors = Finished
        /\ batch.skipped = batch.noId
        /\ batch.errors >= batch.fetchFailed
        /\ batch.pc = "done" =>
               batch.synced + batch.skipped + batch.errors = Len(batch.files)

C1_Witness ==
    /\ batch.pc = "done"
    /\ Len(batch.files) = 3
    /\ batch.synced = 1 /\ batch.skipped = 1 /\ batch.errors = 1
    /\ batch.fetchFailed = 1

BatchStep ==
    \/ \E threw \in BOOLEAN : SleepDone(threw)
    \/ \E resp \in Responses : FetchReturn("batch", resp)
    \/ \E ok \in BOOLEAN : MergeDone("batch", ok)
    \/ \E ok \in BOOLEAN : RenameDone("batch", ok)

\* C2: whatever fails while a file is processed, the step counts at most one
\* error, the run goes on to the delay and the next file over the same list,
\* and it ends only after the last file, with the summary.
C2_Step ==
    batch.pc \in {"run", "sleep"} =>
        /\ ENABLED BatchStep
        /\ batch'.pc \in {"run", "sleep", "done"}
        /\ batch'.files = batch.files
        /\ batch'.i \in {batch.i, batch.i + 1}
        /\ batch'.errors \in {batch.errors, batch.errors + 1}
        /\ batch'.pc = "done" =>
               /\ batch.pc = "sleep" /\ batch.i = Len(batch.files)
               /\ notices' = <<"SyncComplete">>
        /\ (batch'.pc = "sleep" /\ (batch.pc = "run" \/ batch'.i # batch.i)) =>
               /\ sn'["batch"].pc = "idle"
               /\ sn'["batch"].result \in {"error", "threw"} =>
                      batch'.errors = batch.errors + 1

C2_FailureIsolated == [][C2_Step]_vars

C2_Witness ==
    /\ batch.pc = "done"
    /\ batch.i = 3
    /\ batch.errors = 2
    /\ batch.synced = 1
    /\ sn["batch"].result = "synced"

\* C7: the files of a run are processed one at a time, a delay is completed
\* after every file, a file causes at most one request, and two requests of
\* a run are at least one completed delay apart.
C7_OneAtATime ==
    /\ batch.requestsThisFile <= 1
    /\ batch.requests >= 2 => batch.minGap >= 1
    /\ sn["batch"].pc # "idle" =>
           batch.pc = "run" /\ sn["batch"].file = batch.files[batch.i]
    /\ batch.pc = "run" => batch.delays = batch.i - 1 /\ sn["batch"].pc # "idle"
    /\ batch.pc = "sleep" => batch.delays = batch.i - 1 /\ sn["batch"].pc = "idle"
    /\ batch.pc = "done" => batch.delays = Len(batch.files)

C7_Witness ==
    /\ batch.pc = "done"
    /\ batch.requests = 2
    /\ batch.skipped = 1
    /\ batch.fetchFailed = 1

RECURSIVE IsUnder(_, _)
IsUnder(path, ancestor) ==
    IF path = ancestor THEN TRUE
    ELSE IF path = Root THEN FALSE
    ELSE IsUnder(FolderParent(path), ancestor)

\* the notes in or below a configured folder that exists
UnderTargets(targets) ==
    {i \in NoteIds :
        /\ notes[i].exists
        /\ \E k \in 1..Len(targets) :
              targets[k] \in folders /\ IsUnder(notes[i].parent, targets[k])}

Occurrences(s, x) == Cardinality({k \in 1..Len(s) : s[k] = x})

\* C9: a run captures exactly the notes in or below the configured folders
\* that exist, names the folders it did not find in one warning and still
\* runs over the notes of the others; it reads, writes and renames no file
\* outside the target folders.
C9_Step ==
    /\ \A i \in NoteIds : notes'[i] # notes[i] => i \in UnderTargets(batch.targets)
    /\ batch'.touched \subseteq UnderTargets(batch'.targets)
    /\ batch'.pc = "done" => batch'.touched = Range(batch'.files)
    /\ (used'.runs # used.runs /\ settings.apiKey # "" /\ settings.targetFolders # << >>) =>
           /\ Range(batch'.files) = UnderTargets(settings.targetFolders)
           /\ Range(batch'.missingFolders) =
                  {x \in Range(settings.targetFolders) : x \notin folders}
           /\ Occurrences(notices', "FoldersNotFound") =
                  IF batch'.missingFolders # << >> THEN 1 ELSE 0
           /\ UnderTargets(settings.targetFolders) # {} => batch'.pc \in {"run", "sleep"}

C9_TargetFoldersOnly == [][C9_Step]_vars

C9_Witness ==
    /\ batch.pc = "done"
    /\ Len(batch.missingFolders) = 2
    /\ batch.touched = {2}
    /\ batch.synced = 1

(***************************************************************************)
(* The settings tab: the toggle and the text field of a field mapping      *)
(* (main.ts 825-841).                                                      *)
(***************************************************************************)
\* omdbField.toLowerCase()
LowerName(field) ==
    CASE field = "Title" -> "title" [] field = "Year" -> "year"
      [] field = "Runtime" -> "runtime"
      [] field = "Genre" -> "genre" [] field = "Type" -> "type"
      [] field = "Director" -> "director" [] field = "Released" -> "released"
      [] OTHER -> "ratings"

\* what the user types into the property field; "" is the cleared field
PropertyChoices == {"", "imdbid", "title"}

ToggleMapping(k, value) ==
    /\ used.edits < MaxEdits
    /\ k \in 1..Len(settings.fieldMappings)
    /\ value # settings.fieldMappings[k].enabled
    /\ settings' = [settings EXCEPT !.fieldMappings[k].enabled = value]
    /\ used' = [used EXCEPT !.edits = @ + 1]
    /\ UNCHANGED <<notes, folders, tz, stored, batch, sn, create, net, notices>>

SetNoteProperty(k, value) ==
    /\ used.edits < MaxEdits
    /\ k \in 1..Len(settings.fieldMappings)
    /\ LET property == IF value # "" THEN value
                       ELSE LowerName(settings.fieldMappings[k].omdbField)
       IN  /\ property # settings.fieldMappings[k].noteProperty
           /\ settings' = [settings EXCEPT !.fieldMappings[k].noteProperty = property]
    /\ used' = [used EXCEPT !.edits = @ + 1]
    /\ UNCHANGED <<notes, folders, tz, stored, batch, sn, create, net, notices>>

(***************************************************************************)
(* The sync-current command with the settings tab open.                    *)
(***************************************************************************)
\* getActiveFile(): nothing, the image, or the first note
ActiveChoices == {0, -1, 1}

InitNote ==
    /\ settings = DEFAULT_SETTINGS
    /\ \E h \in {NoHeader, HeaderNoId, HeaderWithId} :
          notes = [i \in NoteIds |->
                      [exists |-> TRUE, parent |-> Place(i), basename |-> BaseName(i),
                       header |-> IF i = 1 THEN h ELSE HeaderWithId, body |-> "body"]]
    /\ folders = {"Movies", "Movies/Sub", "TV Shows", "Inbox"}
    /\ tz = 1
    /\ stored = NoStored
    /\ batch = IdleBatch
    /\ sn = [p \in Callers |-> IdleCall]
    /\ create = IdleCreate
    /\ net = NoRequest
    /\ notices = << >>
    /\ used = [runs |-> 0, syncs |-> 0, edits |-> 0, creates |-> 0]

NextNote ==
    \/ \E active \in ActiveChoices, threw \in BOOLEAN : SyncCurrentNote(active, threw)
    \/ \E resp \in Responses : FetchReturn("current", resp)
    \/ \E ok \in BOOLEAN : MergeDone("current", ok)
    \/ \E ok \in BOOLEAN : RenameDone("current", ok)
    \/ \E value \in ApiKeys : SetApiKey(value)
    \/ \E value \in BOOLEAN : SetRenameNotes(value)
    \/ \E k \in 1..Len(DefaultMappings), value \in BOOLEAN : ToggleMapping(k, value)
    \/ \E k \in 1..Len(DefaultMappings), value \in PropertyChoices : SetNoteProperty(k, value)

SpecNote == InitNote /\ [][NextNote]_vars

(***************************************************************************)
(* Properties of syncNote and of the merge.                                *)
(***************************************************************************)
\* the outcome the per-note state machine prescribes for what a call met
ExpectedOutcome(obs) ==
    IF obs.threw THEN "threw"
    ELSE IF ~obs.hadHeader THEN "skipped"
    ELSE IF ~obs.hadId THEN "skipped"
    ELSE IF ~obs.hadKey THEN "error"
    ELSE IF obs.fetch \in {"null", "False"} THEN "error"
    ELSE IF obs.write = "fail" THEN "error"
    ELSE "synced"

\* C3: the outcome of a syncNote call is the one of the per-note state
\* machine, its guards taken in order (header, identifier, API key, fetch,
\* header write); the merge is reached only after a provider success and the
\* rename only after the merge has been written.
C3_StateMachine ==
    \A p \in Callers :
        /\ (sn[p].pc = "idle" /\ sn[p].result # "none") =>
               /\ sn[p].result = ExpectedOutcome(sn[p].obs)
               /\ sn[p].result = "synced" =>
                      sn[p].obs.fetch = "True" /\ sn[p].obs.write = "ok"
               /\ sn[p].obs.fetch # "none" =>
                      sn[p].obs.hadHeader /\ sn[p].obs.hadId /\ sn[p].obs.hadKey
        /\ sn[p].pc = "fetching" =>
               sn[p].obs.hadHeader /\ sn[p].obs.hadId /\ sn[p].obs.hadKey
        /\ sn[p].pc = "merging" => sn[p].obs.fetch = "True" /\ sn[p].obs.write = "none"
        /\ sn[p].pc = "renaming" => sn[p].obs.fetch = "True" /\ sn[p].obs.write = "ok"
        /\ sn[p].obs.write # "none" => sn[p].obs.fetch = "True"
        /\ sn[p].obs.rename # "none" => sn[p].obs.write = "ok"

\* a note without identifier met while no API key is configured is skipped
C3_Witness ==
    /\ sn["current"].pc = "idle"
    /\ sn["current"].result = "skipped"
    /\ sn["current"].obs.hadHeader
    /\ ~sn["current"].obs.hadId
    /\ ~sn["current"].obs.hadKey

\* the mappings that write property prop when data is merged
Writers(prop, data, mappings) ==
    {k \in 1..Len(mappings) :
        /\ mappings[k].enabled
        /\ mappings[k].noteProperty = prop
        /\ data[mappings[k].omdbField] # Absent
        /\ data[mappings[k].omdbField] # NA}

\* the header the merge is to leave: a property written by some enabled
\* mapping whose field is there holds the transformed value of the last such
\* mapping of the list, every other property holds what it held
MergedFm(fm, data, mappings) ==
    [prop \in Props |->
        IF Writers(prop, data, mappings) = {} THEN fm[prop]
        ELSE LET k == CHOOSE j \in Writers(prop, data, mappings) :
                          \A i \in Writers(prop, data, mappings) : i <= j
             IN  transformValue(mappings[k].omdbField, data[mappings[k].omdbField])]

\* the step that writes the merge of caller p
MergeWritten(p) == sn[p].pc = "merging" /\ sn'[p].obs.write = "ok"

\* C5: the merge sets the property of every enabled mapping whose field is
\* present and not "N/A" to the transformed value (the later mapping of the
\* list wins), keeps every other property, and removes none.
C5_Step ==
    \A p \in Callers :
        MergeWritten(p) =>
            LET f == sn[p].file IN
            /\ notes'[f].header.has
            /\ notes'[f].header.fm =
                   MergedFm(notes[f].header.fm, sn[p].data, settings.fieldMappings)
            /\ \A prop \in Props :
                   notes[f].header.fm[prop] # Absent => notes'[f].header.fm[prop] # Absent
            /\ notes'[f].body = notes[f].body
            /\ \A g \in NoteIds \ {f} : notes'[g] = notes[g]

C5_MergeExact == [][C5_Step]_vars

\* after a movie, a series record is merged while Year is mapped to "title":
\* the later mapping wins, "N/A" and a disabled mapping leave their property
C5_Witness ==
    /\ sn["current"].pc = "idle"
    /\ sn["current"].result = "synced"
    /\ sn["current"].data = RecSeries
    /\ settings.fieldMappings[2].noteProperty = "title"
    /\ notes[1].header.fm["title"] = Num(2004)
    /\ notes[1].header.fm["runtime"] = Num(96)
    /\ notes[1].header.fm["type"] = Absent
    /\ notes[1].header.fm["rated"] = Str(<<"P", "G">>)

\* the step of caller p is a second sync of the file of its last merge, the
\* settings and the header as that merge left them, the same record returned
Repeated(p) ==
    /\ sn[p].pc # "idle"
    /\ sn'[p] # sn[p]
    /\ sn[p].last.file = sn[p].file
    /\ sn[p].last.rename # "pending"
    /\ sn[p].last.header = notes[sn[p].file].header
    /\ sn[p].last.edits = used.edits
    /\ sn[p].last.renameNotes = settings.renameNotes
    /\ sn[p].pc = "merging" => sn[p].data = sn[p].last.data

\* C4 as claimed: a second sync under the same settings and record leaves the
\* header as the first left it and never renames again.
C4_Claimed_Step ==
    \A p \in Callers :
        Repeated(p) =>
            /\ notes'[sn[p].file].header = sn[p].last.header
            /\ sn'[p].pc # "renaming"
            /\ notes'[sn[p].file].basename = notes[sn[p].file].basename

C4_Step ==
    \A p \in Callers :
        Repeated(p) =>
            /\ notes'[sn[p].file].header = sn[p].last.header
            /\ sn[p].last.rename # "fail" =>
                   /\ sn'[p].pc # "renaming"
                   /\ notes'[sn[p].file].basename = notes[sn[p].file].basename

C6_Step ==
    \A i \in NoteIds :
        (notes[i].header.has /\ Truthy(notes[i].header.fm[settings.imdbIdProperty])) =>
            notes'[i].header.fm[settings.imdbIdProperty] =
                notes[i].header.fm[settings.imdbIdProperty]

C6_IdentifierKept == [][C6_Step]_vars

(***************************************************************************)
(* insertOrReplaceIMDBID (main.ts 300-334). A content is the sequence of   *)
(* its lines (content.split("\n")), so the empty content is one empty      *)
(* line. The template lines of the model hold no "$".                      *)
(***************************************************************************)
Dashes == <<"-", "-", "-">>

StartsWith(s, p) == MatchAt(s, p, 1)

\* the characters of a property name
PropChars(prop) ==
    CASE prop = "imdbid" -> <<"i", "m", "d", "b", "i", "d">>
      [] prop = "title" -> <<"t", "i", "t", "l", "e">>
      [] prop = "year" -> <<"y", "e", "a", "r">>
      [] prop = "runtime" -> <<"r", "u", "n", "t", "i", "m", "e">>
      [] prop = "genre" -> <<"g", "e", "n", "r", "e">>
      [] prop = "director" -> <<"d", "i", "r", "e", "c", "t", "o", "r">>
      [] prop = "released" -> <<"r", "e", "l", "e", "a", "s", "e", "d">>
      [] prop = "type" -> <<"t", "y", "p", "e">>
      [] prop = "rated" -> <<"r", "a", "t", "e", "d">>

EmptyContent == << << >> >>

\* `${prop}: ${imdbId}`
IdLine(prop, imdbId) == PropChars(prop) \o <<":", " ">> \o imdbId

\* `---\n${prop}: ${imdbId}\n---\n\n${content}`
Prepended(content, prop, imdbId) ==
    << Dashes, IdLine(prop, imdbId), Dashes, << >> >> \o content

\* content.match(/^---\n([\s\S]*?)\n---/): the first line is "---" and the
\* match ends in the first line from the third on that starts with "---";
\* the number of that line, 0 without a match
ClosingLine(content) ==
    LET ks == {k \in 3..Len(content) : StartsWith(content[k], Dashes)}
    IN  IF content[1] = Dashes /\ ks # {}
        THEN CHOOSE k \in ks : \A j \in ks : k <= j
        ELSE 0

\* a line that String.replace gets as part of its replacement string: "$$"
\* in it stands for one "$" (the contents of the model have no other
\* replacement pattern: no "$&", "$`" or "$'")
RECURSIVE ExpandDollars(_)
ExpandDollars(line) ==
    IF line = << >> THEN << >>
    ELSE IF Len(line) >= 2 /\ line[1] = "$" /\ line[2] = "$"
         THEN <<"$">> \o ExpandDollars(Sub(line, 3, Len(line)))
    ELSE <<Head(line)>> \o ExpandDollars(Tail(line))

\* main.ts 300-334.  In the branch of lines 322-331 the updated header is the
\* replacement string of content.replace, so its "$$" are expanded
insertOrReplaceIMDBID(content, imdbId) ==
    LET prop == settings.imdbIdProperty
        k == ClosingLine(content)
        hits == {j \in 2..(k - 1) : StartsWith(content[j], PropChars(prop) \o <<":">>)}
        hit == CHOOSE j \in hits : \A i \in hits : j <= i
    IN  IF ~StartsWith(content[1], Dashes)
        THEN Prepended(content, prop, imdbId)
        ELSE IF k = 0 \/ (k = 3 /\ content[2] = << >>)
        THEN Prepended(content, prop, imdbId)
        ELSE IF hits # {}
        THEN [j \in 1..Len(content) |->
                 IF j = hit THEN IdLine(prop, imdbId)
                 ELSE IF j > 1 /\ j < k THEN ExpandDollars(content[j])
                 ELSE content[j]]
        ELSE <<content[1], IdLine(prop, imdbId)>> \o Tail(content)

\* the header the vault reads from the content of a file it creates: the
\* "key: value" lines between a first line "---" and the next line "---"
HeaderOf(content) ==
    LET ks == {k \in 2..Len(content) : content[k] = Dashes}
        k == IF ks = {} THEN 0 ELSE CHOOSE x \in ks : \A j \in ks : x <= j
        LinesOf(p) ==
            {j \in 2..(k - 1) : StartsWith(content[j], PropChars(p) \o <<":", " ">>)}
        ValueOf(p) ==
            IF LinesOf(p) = {} THEN Absent
            ELSE LET j == CHOOSE x \in LinesOf(p) : \A y \in LinesOf(p) : x <= y
                 IN  Str(Sub(content[j], Len(PropChars(p)) + 3, Len(content[j])))
    IN  IF content[1] # Dashes \/ k <= 2 THEN NoHeader
        ELSE [has |-> TRUE, fm |-> [p \in Props |-> ValueOf(p)]]

(***************************************************************************)
(* The template files of the vault.                                        *)
(***************************************************************************)
TemplateMovie == "Templates/movie.md"
TemplateSeries == "Templates/series.md"
TemplateMissing == "Templates/missing.md"

\* further templates: a header without the identifier, an empty header, a
\* header of one blank line, a header with "$$" in a value (with and without
\* the identifier), and no header but a rule in the body
TemplateNoId == "Templates/noid.md"
TemplateEmptyHeader == "Templates/emptyheader.md"
TemplateBlankHeader == "Templates/blankheader.md"
TemplateDollars == "Templates/dollars.md"
TemplateDollarsNoId == "Templates/dollarsnoid.md"
TemplateRule == "Templates/rule.md"

TemplateFiles ==
    {TemplateMovie, TemplateSeries, TemplateNoId, TemplateEmptyHeader,
     TemplateBlankHeader, TemplateDollars, TemplateDollarsNoId, TemplateRule}

IsTemplateFile(path) == path \in TemplateFiles

\* vault.read(templateFile)
TemplateContent(path) ==
    IF path = TemplateMovie
    THEN << Dashes, <<"r", "a", "t", "e", "d", ":", " ", "R">>, <<"i", "m", "d", "b", "i", "d", ":", " ", "t", "t", "0">>, Dashes,
            <<"B", "o", "d", "y">> >>
    ELSE IF path = TemplateNoId
    THEN << Dashes, <<"r", "a", "t", "e", "d", ":", " ", "R">>, <<"t", "i", "t", "l", "e", ":", " ", "x">>, Dashes, <<"B", "o", "d", "y">> >>
    ELSE IF path = TemplateEmptyHeader
    THEN << Dashes, Dashes, <<"B", "o", "d", "y">> >>
    ELSE IF path = TemplateBlankHeader
    THEN << Dashes, << >>, Dashes, <<"B", "o", "d", "y">> >>
    ELSE IF path = TemplateDollars
    THEN << Dashes, <<"c", "o", "s", "t", ":", " ", "$", "$">>, <<"i", "m", "d", "b", "i", "d", ":", " ", "t", "t", "0">>, Dashes, <<"i", "m", "d", "b", "i", "d", ":", " ", "s", "e", "e">> >>
    ELSE IF path = TemplateDollarsNoId
    THEN << Dashes, <<"c", "o", "s", "t", ":", " ", "$", "$">>, Dashes, <<"B", "o", "d", "y">> >>
    ELSE IF path = TemplateRule
    THEN << <<"B", "o", "d", "y">>, Dashes, <<"i", "m", "d", "b", "i", "d", ":", " ", "n", "o">> >>
    ELSE << <<"B", "o", "d", "y">> >>

(***************************************************************************)
(* The create-note flow: promptForNewNote (main.ts 152-161), the prompt    *)
(* IMDBInputModal (596-666) and createNoteFromIMDBID (192-280), one flow   *)
(* at a time.                                                              *)
(***************************************************************************)
\* how many times the prompt is opened
MaxCreates == 2

GameType == <<"g", "a", "m", "e">>

\* a record of a type that is neither movie nor series, without a year
RecGame ==
    [f \in Fields |->
        CASE f = "Title" -> Str(<<"G", "o">>)
          [] f = "Type" -> Str(GameType)
          [] f = "Genre" -> Str(<<"A">>)
          [] OTHER -> Absent]

CreateResponses == Responses \cup {[kind |-> "True", data |-> RecGame]}

\* what the user types into the prompt
InputChoices ==
    { << >>, <<" ">>, IdA \o <<" ">>, <<"T", "T", "1", "2", "3", "4", "5", "6", "7">>, <<"t", "t", "1", "2", "3">>,
      <<"i", "m", "d", "b", ".", "c", "o", "m", "/", "t", "i", "t", "l", "e", "/", "t", "t", "1", "2", "/">> }

\* createNoteFromIMDBID without its check of the file path
FileExistsNever(folderPath, filename) == FALSE

\* vault.getAbstractFileByPath(filePath) at line 242
FileExistsAt(folderPath, filename) == NotesAt(folderPath, filename) # {}

FreeSlots == {i \in NoteIds : ~notes[i].exists}

\* createNoteFromIMDBID ends
CreateEnds(c, result, said) ==
    /\ create' = [c EXCEPT !.pc = "idle", !.result = result]
    /\ notices' = said

\* createNoteFromIMDBID from the check of the file path (240-265) up to the
\* next await: the read of the template or the creation of the note
AfterFolder(c, said) ==
    LET type == OrElse(c.data["Type"], MovieType)
        isSeries == type \in {SeriesType, <<"e", "p", "i", "s", "o", "d", "e">>}
        templatePath == IF isSeries THEN settings.templateFileSeries
                        ELSE settings.templateFileMovies
    IN  IF FileExistsAt(c.folderPath, c.filename)
        THEN CreateEnds(c, "exists", said \o <<"Note already exists">>)
        ELSE IF templatePath # "" /\ IsTemplateFile(templatePath)
        THEN /\ create' = [c EXCEPT !.pc = "readtemplate", !.templatePath = templatePath]
             /\ notices' = said
        ELSE /\ create' = [c EXCEPT !.pc = "creating",
                                    !.content = insertOrReplaceIMDBID(EmptyContent, c.imdbId)]
             /\ notices' = said

\* the command "create note from IMDB" (promptForNewNote)
PromptForNewNote ==
    /\ create.pc = "idle"
    /\ used.creates < MaxCreates
    /\ FreeSlots # {}
    /\ IF settings.apiKey = ""
       THEN /\ notices' = <<"Please configure your OMDB API key in settings">>
            /\ UNCHANGED <<create, used>>
       ELSE /\ create' = [IdleCreate EXCEPT !.pc = "prompt"]
            /\ notices' = << >>
            /\ used' = [used EXCEPT !.creates = @ + 1]
    /\ UNCHANGED <<settings, notes, folders, tz, stored, batch, sn, net>>

\* the Cancel button of the prompt
Cancel ==
    /\ create.pc = "prompt"
    /\ create' = [create EXCEPT !.pc = "idle", !.result = "cancelled"]
    /\ notices' = << >>
    /\ UNCHANGED <<settings, notes, folders, tz, stored, batch, sn, net, used>>

\* Submit with the request sent before the input is parsed
SubmitRequesting(input) ==
    /\ create.pc = "prompt"
    /\ LET value == Trim(input)
           parsed == parseIMDBId(value)
       IN  IF value = << >>
           THEN /\ notices' = <<"Please enter an IMDB ID or URL">>
                /\ UNCHANGED <<create, net>>
           ELSE IF ~parsed.ok
           THEN /\ CreateEnds([create EXCEPT !.input = input], "invalid",
                               <<"Invalid IMDB ID or URL">>)
                /\ net' = [by |-> "create", key |-> settings.apiKey, id |-> Str(value)]
           ELSE /\ create' = [create EXCEPT !.pc = "fetching", !.input = input,
                                            !.imdbId = parsed.id]
                /\ net' = [by |-> "create", key |-> settings.apiKey, id |-> Str(parsed.id)]
                /\ notices' = <<"Fetching data from OMDB...">>
    /\ UNCHANGED <<settings, notes, folders, tz, stored, batch, sn, used>>

\* submit() of the prompt (651-661) and createNoteFromIMDBID up to its fetch
\* (192-206)
Submit(input) ==
    /\ create.pc = "prompt"
    /\ LET value == Trim(input)
           parsed == parseIMDBId(value)
       IN  IF value = << >>
           THEN /\ notices' = <<"Please enter an IMDB ID or URL">>
                /\ UNCHANGED <<create, net>>
           ELSE IF ~parsed.ok
           THEN /\ CreateEnds([create EXCEPT !.input = input], "invalid",
                               <<"Invalid IMDB ID or URL">>)
                /\ net' = net
           ELSE /\ create' = [create EXCEPT !.pc = "fetching", !.input = input,
                                            !.imdbId = parsed.id]
                /\ net' = [by |-> "create", key |-> settings.apiKey, id |-> Str(parsed.id)]
                /\ notices' = <<"Fetching data from OMDB...">>
    /\ UNCHANGED <<settings, notes, folders, tz, stored, batch, sn, used>>

\* fetchOMDBData settles (206-238)
CreateFetchReturn(resp) ==
    /\ create.pc = "fetching"
    /\ IF resp.kind # "True"
       THEN CreateEnds(create, "fetchfail", <<"OMDB Error">>)
       ELSE LET title == OrElse(resp.data["Title"], <<"U", "n", "t", "i", "t", "l", "e", "d">>)
                year == OrElse(resp.data["Year"], << >>)
                type == OrElse(resp.data["Type"], MovieType)
                isMovie == type = MovieType
                folderPath ==
                    IF isMovie
                    THEN (IF settings.newNoteFolderMovies # ""
                          THEN settings.newNoteFolderMovies ELSE "Movies")
                    ELSE (IF settings.newNoteFolderSeries # ""
                          THEN settings.newNoteFolderSeries ELSE "TV Shows")
                c == [create EXCEPT !.data = resp.data,
                                    !.filename = TitledName(title, year, type),
                                    !.folderPath = folderPath]
            IN  IF ResolveKind(folderPath) = "none"
                THEN /\ create' = [c EXCEPT !.pc = "mkfolder"]
                     /\ notices' = << >>
                ELSE AfterFolder(c, << >>)
    /\ UNCHANGED <<settings, notes, folders, tz, stored, batch, sn, net, used>>

\* vault.createFolder settles (229-237)
MkFolderDone(ok) ==
    /\ create.pc = "mkfolder"
    /\ IF ok
       THEN /\ folders' = folders \cup {create.folderPath}
            /\ AfterFolder(create, << >>)
       ELSE /\ folders' = folders
            /\ CreateEnds(create, "folderfail", <<"Failed to create folder">>)
    /\ UNCHANGED <<settings, notes, tz, stored, batch, sn, net, used>>

\* vault.read of the template settles (257-265); a rejection escapes the flow
ReadTemplateDone(ok) ==
    /\ create.pc = "readtemplate"
    /\ IF ok
       THEN /\ create' = [create EXCEPT
                             !.pc = "creating",
                             !.content = insertOrReplaceIMDBID(
                                             TemplateContent(create.templatePath),
                                             create.imdbId)]
            /\ notices' = << >>
       ELSE CreateEnds(create, "readfail", << >>)
    /\ UNCHANGED <<settings, notes, folders, tz, stored, batch, sn, net, used>>

\* vault.create settles (267-270); it fails when a file is at the path
CreateDone(ok) ==
    /\ create.pc = "creating"
    /\ IF ok /\ NotesAt(create.folderPath, create.filename) = {}
       THEN LET i == CHOOSE x \in FreeSlots : \A y \in FreeSlots : x <= y
            IN  /\ notes' = [notes EXCEPT ![i] =
                                [exists |-> TRUE, parent |-> create.folderPath,
                                 basename |-> create.filename,
                                 header |-> HeaderOf(create.content),
                                 body |-> "template"]]
                /\ create' = [create EXCEPT !.pc = "opening", !.file = i]
                /\ notices' = <<"Created">>
       ELSE /\ notes' = notes
            /\ CreateEnds(create, "createfail", <<"Failed to create note">>)
    /\ UNCHANGED <<settings, folders, tz, stored, batch, sn, net, used>>

\* openFile settles (272-273)
OpenDone(ok) ==
    /\ create.pc = "opening"
    /\ IF ok
       THEN /\ create' = [create EXCEPT !.pc = "merging"]
            /\ notices' = << >>
       ELSE CreateEnds(create, "openfail", <<"Failed to create note">>)
    /\ UNCHANGED <<settings, notes, folders, tz, stored, batch, sn, net, used>>

\* processFrontMatter settles (275-279)
CreateMergeDone(ok) ==
    /\ create.pc = "merging"
    /\ IF ok
       THEN /\ notes' = [notes EXCEPT ![create.file].header =
                                          updateNoteFrontmatter(@, create.data)]
            /\ CreateEnds(create, "created", << >>)
       ELSE /\ notes' = notes
            /\ CreateEnds(create, "mergefail", <<"Failed to create note">>)
    /\ UNCHANGED <<settings, folders, tz, stored, batch, sn, net, used>>

(***************************************************************************)
(* The create-note command with the settings tab open.                     *)
(***************************************************************************)
MovieTemplates == {"", TemplateMovie, TemplateMissing}
SeriesTemplates == {"", TemplateSeries}

InitCreate ==
    /\ \E tm \in MovieTemplates, ts \in SeriesTemplates :
          settings = [DEFAULT_SETTINGS EXCEPT !.templateFileMovies = tm,
                                              !.templateFileSeries = ts]
    /\ \E base \in {BaseName(1), TitledName(RecMovie["Title"].s, RecMovie["Year"].s, MovieType)} :
          notes = [i \in NoteIds |->
                      [exists |-> i = 1, parent |-> Place(i),
                       basename |-> IF i = 1 THEN base ELSE BaseName(i),
                       header |-> IF i = 1 THEN HeaderWithId ELSE NoHeader,
                       body |-> "body"]]
    /\ folders = {"Movies", "Inbox", "Templates"}
    /\ tz = 0
    /\ stored = NoStored
    /\ batch = IdleBatch
    /\ sn = [p \in Callers |-> IdleCall]
    /\ create = IdleCreate
    /\ net = NoRequest
    /\ notices = << >>
    /\ used = [runs |-> 0, syncs |-> 0, edits |-> 0, creates |-> 0]

NextCreate ==
    \/ PromptForNewNote
    \/ Cancel
    \/ \E input \in InputChoices : Submit(input)
    \/ \E resp \in CreateResponses : CreateFetchReturn(resp)
    \/ \E ok \in BOOLEAN : MkFolderDone(ok)
    \/ \E ok \in BOOLEAN : ReadTemplateDone(ok)
    \/ \E ok \in BOOLEAN : CreateDone(ok)
    \/ \E ok \in BOOLEAN : OpenDone(ok)
    \/ \E ok \in BOOLEAN : CreateMergeDone(ok)
    \/ \E value \in ApiKeys : SetApiKey(value)

SpecCreate == InitCreate /\ [][NextCreate]_vars

(***************************************************************************)
(* Properties of the create-note flow.                                     *)
(***************************************************************************)
\* C8: every remote request carries a non-empty API key.
C8_KeyAtRequest == net.by # "none" => net.key # ""

\* the step in which createNoteFromIMDBID, past the fetch and the folder,
\* looks up the path it derived
ChecksPath ==
    /\ create.pc \in {"fetching", "mkfolder"}
    /\ create' # create
    /\ create'.pc # "mkfolder"
    /\ create'.result \notin {"fetchfail", "folderfail"}

\* C10: when a note is at the path the create-note flow derived, the flow
\* ends there and leaves every note as it is; no step of the flow changes a
\* note other than the one the flow created, and no note is created at a
\* path where one is.
C10_Step ==
    /\ (ChecksPath /\ NotesAt(create'.folderPath, create'.filename) # {}) =>
           /\ create'.pc = "idle"
           /\ notes' = notes
    /\ \A i \in NoteIds :
           /\ (notes[i].exists /\ i # create.file) => notes'[i] = notes[i]
           /\ (~notes[i].exists /\ notes'[i].exists) =>
                  NotesAt(notes'[i].parent, notes'[i].basename) = {}

C10_ExistingKept == [][C10_Step]_vars

\* a second flow for the movie finds the note the first one created
C10_Witness ==
    /\ create.pc = "idle"
    /\ create.result = "exists"
    /\ used.creates = 2
    /\ create.file = 0
    /\ \E i \in NotesAt(create.folderPath, create.filename) :
           i # 1 /\ notes[i].header.fm["title"] = Str(<<"U", "p", ":", " ", "2">>)

(***************************************************************************)
(* Properties of the rename after the merge.                               *)
(***************************************************************************)
\* the rename of the batch's current file settles and the file keeps its name
RenameFailed ==
    /\ sn["batch"].pc = "renaming"
    /\ sn'["batch"].pc # "renaming"
    /\ notes'[sn["batch"].file].basename = notes[sn["batch"].file].basename

\* C11: a rename that fails after the merge leaves the outcome synced: the
\* call returns synced, the batch counts the file as synced and not as an
\* error, and the header stays as the merge wrote it.
C11_Step ==
    RenameFailed =>
        LET f == sn["batch"].file
        IN  /\ sn'["batch"].pc = "idle"
            /\ sn'["batch"].result = "synced"
            /\ batch'.synced = batch.synced + 1
            /\ batch'.errors = batch.errors
            /\ batch'.skipped = batch.skipped
            /\ notes'[f].header = notes[f].header
            /\ notes'[f].header.has
            /\ notes'[f].header.fm =
                   MergedFm(notes'[f].header.fm, sn["batch"].data, settings.fieldMappings)
            /\ notes'[f].header.fm["title"] = sn["batch"].data["Title"]

C11_RenameFailureSwallowed == [][C11_Step]_vars

\* a run in which the rename of one file failed ends with that file synced
C11_Witness ==
    /\ batch.pc = "done"
    /\ sn["batch"].obs.rename = "fail"
    /\ sn["batch"].result = "synced"
    /\ batch.synced >= 1
    /\ batch.errors = 0
    /\ notes[sn["batch"].file].basename = BaseName(sn["batch"].file)

(***************************************************************************)
(* The create-note command over records of every type, with and without a  *)
(* year, and over configured folders that exist or not.                    *)
(***************************************************************************)
EpisodeType == <<"e", "p", "i", "s", "o", "d", "e">>

\* the Type field of a record: none, or one of the provider's values
TypeChoices == {Absent, Str(MovieType), Str(SeriesType), Str(EpisodeType), Str(GameType)}

YearChoices == {Absent, Str(<<"2", "0", "1", "7">>)}

PlaceRecords ==
    {[f \in Fields |->
         CASE f = "Title" -> Str(<<"G", "o", ":", " ", "2">>)
           [] f = "Year" -> year
           [] f = "Type" -> type
           [] OTHER -> Absent] : year \in YearChoices, type \in TypeChoices}

PlaceResponses ==
    {[kind |-> "null", data |-> RecSeries], [kind |-> "False", data |-> RecSeries]}
        \cup {[kind |-> "True", data |-> r] : r \in PlaceRecords}

\* the settings of the two folders: named and missing from the vault, named
\* and there, or empty
MoviesFolders == {"Films", ""}
SeriesFolders == {"TV Shows", "Inbox"}

InitPlace ==
    /\ \E fm \in MoviesFolders, fs \in SeriesFolders :
          settings = [DEFAULT_SETTINGS EXCEPT !.apiKey = "k",
                                              !.newNoteFolderMovies = fm,
                                              !.newNoteFolderSeries = fs]
    /\ notes = [i \in NoteIds |->
                   [exists |-> i = 1, parent |-> Place(i), basename |-> BaseName(i),
                    header |-> IF i = 1 THEN HeaderWithId ELSE NoHeader,
                    body |-> "body"]]
    /\ folders = {"Movies", "Inbox", "Templates"}
    /\ tz = 0
    /\ stored = NoStored
    /\ batch = IdleBatch
    /\ sn = [p \in Callers |-> IdleCall]
    /\ create = IdleCreate
    /\ net = NoRequest
    /\ notices = << >>
    /\ used = [runs |-> 0, syncs |-> 0, edits |-> 0, creates |-> 0]

NextPlace ==
    \/ PromptForNewNote
    \/ Submit(IdA)
    \/ \E resp \in PlaceResponses : CreateFetchReturn(resp)
    \/ \E ok \in BOOLEAN : MkFolderDone(ok)
    \/ \E ok \in BOOLEAN : CreateDone(ok)
    \/ \E ok \in BOOLEAN : OpenDone(ok)
    \/ \E ok \in BOOLEAN : CreateMergeDone(ok)

SpecPlace == InitPlace /\ [][NextPlace]_vars

\* the base name as claimed: "Title (Year)" when the Type field says movie
\* and there is a year, "Title" otherwise
ClaimedName(data) ==
    LET title == data["Title"].s
    IN  IF data["Type"] = Str(MovieType) /\ Truthy(data["Year"])
        THEN sanitizeFilename(title \o <<" ", "(">> \o data["Year"].s \o <<")">>)
        ELSE sanitizeFilename(title)

\* C12: the base name derived for a record, by the create-note flow and by
\* the rename after a sync, is sanitize("Title (Year)") exactly when the
\* record's type is movie and it has a year, and sanitize("Title") for every
\* other type and for a record without a type.
C12_DesiredName ==
    /\ create.filename # << >> => create.filename = ClaimedName(create.data)
    /\ \A p \in Callers :
           sn[p].pc = "renaming" => sn[p].newBase = ClaimedName(sn[p].data)

\* the folder as claimed: the movies folder when the Type field says movie,
\* the series folder otherwise
ClaimedFolder(data) ==
    IF data["Type"] = Str(MovieType)
    THEN (IF settings.newNoteFolderMovies # "" THEN settings.newNoteFolderMovies
          ELSE "Movies")
    ELSE (IF settings.newNoteFolderSeries # "" THEN settings.newNoteFolderSeries
          ELSE "TV Shows")

\* C13: the create-note flow puts the note into the configured movies folder
\* when the record's type is movie and into the configured series folder
\* for every other record, and the folder is there before the note is.
C13_TargetFolder ==
    create.folderPath # "" =>
        /\ create.folderPath = ClaimedFolder(create.data)
        /\ create.pc \in {"creating", "opening", "merging"} =>
               create.folderPath \in folders
        /\ create.file # 0 =>
               /\ notes[create.file].exists
               /\ notes[create.file].parent = create.folderPath
               /\ create.folderPath \in folders

(***************************************************************************)
(* The prompt of the create-note command over the texts a user may submit: *)
(* identifiers and URLs, well formed or not.                               *)
(***************************************************************************)
\* the most digits an identifier of the inputs has
MaxDigits == 8

DigitString == <<"1", "2", "3", "4", "5", "6", "7", "8", "9", "0", "1", "2">>

Pads == {<< >>, <<" ">>}

\* "tt" in the letter cases, and two prefixes that are not "tt"
Prefixes == {<<"t", "t">>, <<"T", "T">>, <<"t", "T">>, <<"t">>, <<"x", "t", "t">>}

RawTails == {<< >>, <<"x">>, <<" ", "x">>}

RawInputs ==
    {pad \o pre \o SubSeq(DigitString, 1, n) \o tail \o pad :
        pad \in Pads, pre \in Prefixes, n \in 0..MaxDigits, tail \in RawTails}

Hosts == {<<"i", "m", "d", "b", ".", "c", "o", "m">>, <<"h", "t", "t", "p", "s", ":", "/", "/", "w", "w", "w", ".", "I", "M", "D", "B", ".", "c", "o", "m">>, <<"e", "x", "a", "m", "p", "l", "e", ".", "o", "r", "g">>}

UrlTails == {<< >>, <<"/">>, <<"/", "r", "e", "v", "i", "e", "w", "s">>, <<"?", "r", "e", "f", "=", "a">>}

UrlInputs ==
    {pad \o host \o <<"/", "t", "i", "t", "l", "e", "/">> \o pre \o SubSeq(DigitString, 1, n) \o tail :
        pad \in Pads, host \in Hosts, pre \in {<<"t", "t">>, <<"T", "T">>, <<"n", "m">>},
        n \in 0..MaxDigits, tail \in UrlTails}

ParseInputs == RawInputs \cup UrlInputs \cup {<<"a", "b", "c">>}

InitParse ==
    /\ settings = [DEFAULT_SETTINGS EXCEPT !.apiKey = "k"]
    /\ notes = [i \in NoteIds |->
                   [exists |-> i = 1, parent |-> Place(i), basename |-> BaseName(i),
                    header |-> IF i = 1 THEN HeaderWithId ELSE NoHeader,
                    body |-> "body"]]
    /\ folders = {"Movies", "Inbox", "Templates"}
    /\ tz = 0
    /\ stored = NoStored
    /\ batch = IdleBatch
    /\ sn = [p \in Callers |-> IdleCall]
    /\ create = IdleCreate
    /\ net = NoRequest
    /\ notices = << >>
    /\ used = [runs |-> 0, syncs |-> 0, edits |-> 0, creates |-> 0]

NextParse ==
    \/ PromptForNewNote
    \/ \E input \in ParseInputs : Submit(input)
    \/ \E resp \in {r \in Responses : r.kind # "True"} : CreateFetchReturn(resp)

SpecParse == InitParse /\ [][NextParse]_vars

(***************************************************************************)
(* Properties of parseIMDBId, on the text the prompt submitted.            *)
(***************************************************************************)
\* the identifier shape: "tt" in any letter case and seven or more digits
IsIdentifier(s) ==
    /\ Len(s) >= 9
    /\ s[1] \in {"t", "T"} /\ s[2] \in {"t", "T"}
    /\ \A k \in 3..Len(s) : s[k] \in Digits

TitlePath == <<"i", "m", "d", "b", ".", "c", "o", "m", "/", "t", "i", "t", "l", "e", "/">>

\* where the text has a provider URL: the positions of "imdb.com/title/"
UrlAt(s) == {i \in 1..Len(s) : MatchAt(LowerAll(s), TitlePath, i)}

\* the segment of the text from position i up to the next "/" or "?"
RECURSIVE Segment(_, _)
Segment(s, i) ==
    IF i > Len(s) \/ s[i] \in {"/", "?"} THEN << >>
    ELSE <<s[i]>> \o Segment(s, i + 1)

\* the <ID> of the first provider URL of the text
UrlId(s) ==
    Segment(s, (CHOOSE i \in UrlAt(s) : \A j \in UrlAt(s) : i <= j) + Len(TitlePath))

\* the prompt has handed a text to parseIMDBId, and how that ended
Submitted == create.input # << >>
Accepted == create.result # "invalid"

\* C14: an input whose trimmed form is an identifier in any letter case is
\* accepted and parsed to "tt" in lower case followed by its digits.
C14_LowerCased ==
    LET trimmed == Trim(create.input)
    IN  (Submitted /\ IsIdentifier(trimmed)) =>
            /\ Accepted
            /\ create.imdbId = <<"t", "t">> \o Sub(trimmed, 3, Len(trimmed))

\* C15: an input with a provider URL .../title/<ID> is parsed to <ID>,
\* whatever follows it, when <ID> has the identifier shape, and is invalid
\* when it has not.
C15_UrlIdentifier ==
    LET trimmed == Trim(create.input)
    IN  (Submitted /\ UrlAt(trimmed) # {}) =>
            IF IsIdentifier(UrlId(trimmed))
            THEN Accepted /\ create.imdbId = UrlId(trimmed)
            ELSE ~Accepted

\* C16: an input that has no provider URL and whose trimmed form is not an
\* identifier is invalid: the flow ends there and no request is issued.
C16_Step ==
    LET trimmed == Trim(create'.input)
    IN  (create.pc = "prompt" /\ create' # create
            /\ UrlAt(trimmed) = {} /\ ~IsIdentifier(trimmed)) =>
            /\ create'.result = "invalid"
            /\ create'.pc = "idle"
            /\ create'.imdbId = << >>
            /\ notices' = <<"Invalid IMDB ID or URL">>
            /\ net' = net

C16_InvalidRejected == [][C16_Step]_vars

\* "tt" and six digits with text around it is turned down
C16_Witness ==
    /\ create.result = "invalid"
    /\ create.pc = "idle"
    /\ Trim(create.input) = <<"t", "t", "1", "2", "3", "4", "5", "6">>
    /\ net = NoRequest

(***************************************************************************)
(* The value transformer under every kind of provider string: the current  *)
(* note is synced with records that carry one field each, the mappings of  *)
(* DEFAULT_SETTINGS for these fields are on (main.ts 35-44), and the       *)
(* machine is west of, at, or east of UTC.                                 *)
(***************************************************************************)
\* Year as the provider writes it: a year, a range, a year with a suffix, text
YearStrings ==
    {<<"2", "0", "1", "7">>,
     <<"2", "0", "0", "4", "-", "2", "0", "1", "0">>,
     <<"2", "0", "1", "7", "x">>,
     <<"u", "n", "k", "n", "o", "w", "n">>,
     << >>}

\* Runtime with and without leading digits
RuntimeStrings ==
    {<<"1", "3", "6", " ", "m", "i", "n">>,
     <<"9", "6">>,
     <<"0", " ", "m", "i", "n">>,
     <<"m", "i", "n", " ", "9", "6">>,
     <<" ", "9", "6", " ", "m", "i", "n">>,
     << >>}

\* comma-separated lists: padded, with empty pieces, with a repeated entry
GenreStrings ==
    {<<"A", ",", " ", "B">>,
     <<"A", ",", ",", "B", ",", " ">>,
     <<" ">>,
     << >>,
     <<"B", ",", " ", "A", ",", " ", "B">>,
     <<"A">>}

\* the same for a second link field
DirectorStrings ==
    {<<"A", ",", " ", "B">>,
     <<" ", ",", "A">>,
     <<"B", ",", "B">>}

\* Released: calendar dates in the provider's format, and text that is no date
ReleasedStrings ==
    {<<"0", "5", " ", "M", "a", "y", " ", "2", "0", "1", "7">>,
     <<"0", "1", " ", "J", "a", "n", " ", "2", "0", "1", "7">>,
     <<"2", "9", " ", "F", "e", "b", " ", "2", "0", "1", "6">>,
     <<"3", "1", " ", "D", "e", "c", " ", "1", "9", "9", "9">>,
     <<"g", "a", "r", "b", "l", "e", "d">>,
     << >>}

\* a provider record that carries the one field g
OneField(g, s) == [f \in Fields |-> IF f = g THEN Str(s) ELSE Absent]

ValueRecords ==
    {OneField("Year", s) : s \in YearStrings}
        \cup {OneField("Runtime", s) : s \in RuntimeStrings}
        \cup {OneField("Genre", s) : s \in GenreStrings}
        \cup {OneField("Director", s) : s \in DirectorStrings}
        \cup {OneField("Released", s) : s \in ReleasedStrings}

ValueResponses ==
    {[kind |-> "False", data |-> RecSeries]}
        \cup {[kind |-> "True", data |-> r] : r \in ValueRecords}

ValueMappings ==
    << [omdbField |-> "Year", noteProperty |-> "year", enabled |-> TRUE],
       [omdbField |-> "Runtime", noteProperty |-> "runtime", enabled |-> TRUE],
       [omdbField |-> "Genre", noteProperty |-> "genre", enabled |-> TRUE],
       [omdbField |-> "Director", noteProperty |-> "director", enabled |-> TRUE],
       [omdbField |-> "Released", noteProperty |-> "released", enabled |-> TRUE] >>

\* the offset of local time from UTC, in hours
TimeZones == {-1, 0, 1}

InitValue ==
    /\ settings = [DEFAULT_SETTINGS EXCEPT !.apiKey = "k",
                                           !.fieldMappings = ValueMappings]
    /\ notes = [i \in NoteIds |->
                   [exists |-> TRUE, parent |-> Place(i), basename |-> BaseName(i),
                    header |-> HeaderWithId, body |-> "body"]]
    /\ folders = {"Movies", "Movies/Sub", "TV Shows", "Inbox"}
    /\ tz \in TimeZones
    /\ stored = NoStored
    /\ batch = IdleBatch
    /\ sn = [p \in Callers |-> IdleCall]
    /\ create = IdleCreate
    /\ net = NoRequest
    /\ notices = << >>
    /\ used = [runs |-> 0, syncs |-> 0, edits |-> 0, creates |-> 0]

NextValue ==
    \/ SyncCurrentNote(1, FALSE)
    \/ \E resp \in ValueResponses : FetchReturn("current", resp)
    \/ \E ok \in BOOLEAN : MergeDone("current", ok)

SpecValue == InitValue /\ [][NextValue]_vars

\* the current note has just been synced with a record whose field g is a
\* string
Merged(g) ==
    /\ sn["current"].pc = "idle"
    /\ sn["current"].result = "synced"
    /\ sn["current"].data[g].t = "str"

\* the property of the synced note
Written(prop) == notes[sn["current"].file].header.fm[prop]

\* the whole string is an integer literal: digits, nothing else
IsWholeInteger(s) == s # << >> /\ \A i \in 1..Len(s) : s[i] \in Digits

\* C17: a Year string is written as an integer exactly when the whole string
\* is an integer; every other string (text, a year range, a year followed by
\* other characters) is written unchanged.
C17_YearWholeString ==
    Merged("Year") =>
        LET s == sn["current"].data["Year"].s
        IN  Written("year") = IF IsWholeInteger(s) THEN Num(DecimalValue(s)) ELSE Str(s)

\* the calendar day that "DD Mon YYYY" names, written YYYY-MM-DD
NamedDay(s) ==
    LET m == CHOOSE mm \in 1..12 : MonthNames[mm] = Sub(s, 4, 6)
    IN  Sub(s, 8, 11) \o <<"-">> \o Decimal(m, 2) \o <<"-">> \o Sub(s, 1, 2)

\* C18: a Released string that parses as a calendar date is written as that
\* same day in the form YYYY-MM-DD, whatever the time zone of the machine; a
\* string that does not parse is written unchanged.
C18_ReleasedSameDay ==
    Merged("Released") =>
        LET s == sn["current"].data["Released"].s
        IN  Written("released") =
                IF ParseLocalDate(s).ok THEN Str(NamedDay(s)) ELSE Str(s)

\* the same statement for machines that are not east of UTC
C18_WestOfUtc == tz <= 0 => C18_ReleasedSameDay

\* the places of the commas of s, with the two ends of s, in order
Cuts(s) == SetToSeq({0, Len(s) + 1} \cup {i \in 1..Len(s) : s[i] = ","})

\* the pieces of s between its commas, trimmed
Pieces(s) ==
    [k \in 1..(Len(Cuts(s)) - 1) |-> Trim(Sub(s, Cuts(s)[k] + 1, Cuts(s)[k + 1] - 1))]

NonEmpty(piece) == piece # << >>

\* the non-empty pieces, in their order, duplicates included
Kept(s) == SelectSeq(Pieces(s), NonEmpty)

ClaimedLinks(s) == [k \in 1..Len(Kept(s)) |-> <<"[", "[">> \o Kept(s)[k] \o <<"]", "]">>]

LinkProps == [Genre |-> "genre", Director |-> "director"]

\* C19: a link field is written as the list of its comma-separated pieces,
\* trimmed, without the empty ones, each wrapped as [[piece]], in the
\* original order and with duplicates kept; the list is as long as the
\* number of non-empty trimmed pieces.
C19_LinkList ==
    \A g \in DOMAIN LinkProps :
        Merged(g) =>
            LET s == sn["current"].data[g].s
                out == Written(LinkProps[g])
            IN  /\ g \in linkFields
                /\ out = List(ClaimedLinks(s))
                /\ Len(out.l) = Cardinality({k \in 1..Len(Pieces(s)) : Pieces(s)[k] # << >>})

\* "B, A, B" has been written as [[B]], [[A]], [[B]], and "A,,B, " as
\* [[A]], [[B]]
C19_Witness ==
    /\ Merged("Genre")
    /\ sn["current"].data["Genre"].s = <<"B", ",", " ", "A", ",", " ", "B">>
    /\ Written("genre") = List(<< <<"[", "[", "B", "]", "]">>, <<"[", "[", "A", "]", "]">>,
                                  <<"[", "[", "B", "]", "]">> >>)
    /\ Written("director") = List(<< <<"[", "[", "A", "]", "]">> >>)

\* the length of the leading run of digits of s
LeadingDigits(s) ==
    CHOOSE n \in 0..Len(s) :
        /\ \A i \in 1..n : s[i] \in Digits
        /\ n < Len(s) => s[n + 1] \notin Digits

\* C20: a Runtime string that starts with a digit is written as the integer
\* its leading run of digits spells, the rest of the string discarded; a
\* string that does not start with a digit is written unchanged.
C20_RuntimeLeadingDigits ==
    Merged("Runtime") =>
        LET s == sn["current"].data["Runtime"].s
        IN  Written("runtime") =
                IF LeadingDigits(s) > 0
                THEN Num(DecimalValue(Sub(s, 1, LeadingDigits(s))))
                ELSE Str(s)

\* "136 min" has been written as 136
C20_Witness ==
    /\ Merged("Runtime")
    /\ sn["current"].data["Runtime"].s = <<"1", "3", "6", " ", "m", "i", "n">>
    /\ Written("runtime") = Num(136)

\* a string with text before the digits is written unchanged
C20_WitnessUnchanged ==
    /\ Merged("Runtime")
    /\ sn["current"].data["Runtime"].s = <<" ", "9", "6", " ", "m", "i", "n">>
    /\ Written("runtime") = Str(<<" ", "9", "6", " ", "m", "i", "n">>)

(***************************************************************************)
(* The file name of a new note under every kind of title: the create       *)
(* command is run up to the point where the name is computed (main.ts      *)
(* 213-219), for series records whose name is sanitizeFilename(Title).     *)
(***************************************************************************)
MaxTitle == 4

\* the characters titles are made of: a letter, the colon, the blank, the
\* dot, the dash and one more character a file name may not hold
TitleChars == {"a", ":", " ", ".", "-", "?"}

ShortTitles == UNION {[1..k -> TitleChars] : k \in 1..MaxTitle}

\* titles that reach the length limit of line 294: 198 letters and a tail
LongTitles == {[i \in 1..(FilenameLimit - 2) |-> "a"] \o tail : tail \in [1..3 -> TitleChars]}

Titles == ShortTitles \cup LongTitles

NameRecords ==
    {[f \in Fields |-> CASE f = "Title" -> Str(title)
                         [] f = "Type" -> Str(SeriesType)
                         [] OTHER -> Absent] : title \in Titles}

NameResponses ==
    {[kind |-> "False", data |-> RecSeries]}
        \cup {[kind |-> "True", data |-> r] : r \in NameRecords}

InitName ==
    /\ settings = [DEFAULT_SETTINGS EXCEPT !.apiKey = "k"]
    /\ notes = [i \in NoteIds |->
                   [exists |-> i = 1, parent |-> Place(i), basename |-> BaseName(i),
                    header |-> IF i = 1 THEN HeaderWithId ELSE NoHeader,
                    body |-> "body"]]
    /\ folders = {"Movies", "TV Shows"}
    /\ tz = 0
    /\ stored = NoStored
    /\ batch = IdleBatch
    /\ sn = [p \in Callers |-> IdleCall]
    /\ create = IdleCreate
    /\ net = NoRequest
    /\ notices = << >>
    /\ used = [runs |-> 0, syncs |-> 0, edits |-> 0, creates |-> 0]

NextName ==
    \/ PromptForNewNote
    \/ Submit(IdA)
    \/ \E resp \in NameResponses : CreateFetchReturn(resp)

SpecName == InitName /\ [][NextName]_vars

\* the create command has computed the name of the note from the title
Named == create.pc = "creating" /\ create.data["Title"].t = "str"

NamedTitle == create.data["Title"].s

\* the number of places where pat occurs in s
Count(pat, s) ==
    Cardinality({i \in 1..(Len(s) - Len(pat) + 1) : Sub(s, i, i + Len(pat) - 1) = pat})

ColonSpace == <<":", " ">>
SpacedDash == <<" ", "-", " ">>

NoInvalidChars(s) == \A i \in 1..Len(s) : s[i] \notin InvalidChars

\* the title has text at both ends: it does not begin with ": ", does not
\* begin or end with whitespace or a dot, and its name is not cut at the limit
Inner(s) ==
    /\ s[1] \notin WhiteSpace \cup {"."}
    /\ s[Len(s)] \notin WhiteSpace \cup {"."}
    /\ ~(Len(s) >= 2 /\ s[1] = ":" /\ s[2] = " ")
    /\ Len(s) + Count(ColonSpace, s) <= FilenameLimit

\* C21 as stated: the name has none of the characters \ / : * ? " < > | and
\* every ": " of the title is rendered as " - " in it.
C21_Claimed ==
    Named => /\ NoInvalidChars(create.filename)
             /\ Count(SpacedDash, create.filename) >= Count(ColonSpace, NamedTitle)

\* C21: the name has none of the characters \ / : * ? " < > | , and every
\* ": " of a title that has text at both ends is rendered as " - " (at the
\* start or the end of a title the blank of " - " is trimmed away).
C21_ColonRendered ==
    Named => /\ NoInvalidChars(create.filename)
             /\ Inner(NamedTitle) =>
                    Count(SpacedDash, create.filename) >= Count(ColonSpace, NamedTitle)

\* "a: a" has been named "a - a"
C21_Witness ==
    /\ Named
    /\ NamedTitle = <<"a", ":", " ", "a">>
    /\ create.filename = <<"a", " ", "-", " ", "a">>

AtMostLimit(s) == Len(s) <= FilenameLimit

NoDotAtEnds(s) == s # << >> => s[1] # "." /\ s[Len(s)] # "."

NoSpaceAtEnds(s) == s # << >> => s[1] \notin WhiteSpace /\ s[Len(s)] \notin WhiteSpace

NoDashRun(s) == \A i \in 1..(Len(s) - 1) : ~(s[i] = "-" /\ s[i + 1] = "-")

NoSpaceRun(s) == \A i \in 1..(Len(s) - 1) : ~(s[i] \in WhiteSpace /\ s[i + 1] \in WhiteSpace)

\* C28: the name of a note has at most 200 characters, does not start or end
\* with a dot, has no whitespace at its ends, and has no run of two or more
\* dashes or of two or more whitespace characters.
C28_SafeName ==
    Named => /\ AtMostLimit(create.filename)
             /\ NoDotAtEnds(create.filename)
             /\ NoSpaceAtEnds(create.filename)
             /\ NoDashRun(create.filename)
             /\ NoSpaceRun(create.filename)

\* the parts of C28 that every name of the model has
C28_LengthAndRuns ==
    Named => /\ AtMostLimit(create.filename)
             /\ NoDashRun(create.filename)
             /\ NoSpaceRun(create.filename)

\* the same statement for titles that stay under the length limit
C28_ShortNoSpaceAtEnds ==
    (Named /\ Len(NamedTitle) <= MaxTitle) => NoSpaceAtEnds(create.filename)

\* the call ended as skipped, or as error for a missing key, a transport
\* failure or a failure the provider reported
EndedWithoutData(call) ==
    /\ call.pc = "idle"
    /\ \/ call.result = "skipped"
       \/ /\ call.result = "error"
          /\ ~call.obs.hadKey \/ call.obs.fetch \in {"null", "False"}

\* C22: a syncNote call that ends as skipped, or as error for a missing key,
\* a transport failure or a provider failure, writes nothing: no step of it
\* changes a note (header, body, place or name), and it never reaches the
\* merge or the rename; the vault is written only by calls whose lookup
\* returned a record.
C22_Step ==
    /\ \A p \in Callers :
          /\ (sn'[p] # sn[p] /\ EndedWithoutData(sn'[p])) =>
                 /\ sn[p].pc \in {"idle", "fetching"}
                 /\ notes' = notes
                 /\ sn'[p].obs.write = "none"
                 /\ sn'[p].obs.rename = "none"
          /\ (sn[p].pc = "idle" /\ sn'[p] # sn[p]) => notes' = notes
          /\ sn[p].pc = "fetching" => notes' = notes
    /\ notes' # notes =>
          \E p \in Callers : /\ sn[p].pc \in {"merging", "renaming"}
                              /\ sn[p].obs.fetch = "True"
                              /\ sn[p].obs.hadKey

C22_NoWrite == [][C22_Step]_vars

\* a call has ended on the failure the provider reported, the note as it was
C22_Witness ==
    /\ EndedWithoutData(sn["current"])
    /\ sn["current"].obs.fetch = "False"
    /\ sn["current"].file = 1
    /\ notes[1].header \in {HeaderWithId}
    /\ notes[1].basename = BaseName(1)

(***************************************************************************)
(* The create command up to the content of the new note (main.ts 192-265), *)
(* for every type the provider reports and every template of the vault.    *)
(***************************************************************************)
IdB == <<"t", "t", "7", "6", "5", "4", "3", "2", "1">>

TemplateChoices == TemplateFiles \cup {"", TemplateMissing}

InitTemplate ==
    /\ \E tm \in TemplateChoices, ts \in {"", TemplateSeries, TemplateMissing} :
          settings = [DEFAULT_SETTINGS EXCEPT !.apiKey = "k",
                                              !.templateFileMovies = tm,
                                              !.templateFileSeries = ts]
    /\ notes = [i \in NoteIds |->
                   [exists |-> i = 1, parent |-> Place(i), basename |-> BaseName(i),
                    header |-> IF i = 1 THEN HeaderWithId ELSE NoHeader,
                    body |-> "body"]]
    /\ folders = {"Movies", "TV Shows", "Templates"}
    /\ tz = 0
    /\ stored = NoStored
    /\ batch = IdleBatch
    /\ sn = [p \in Callers |-> IdleCall]
    /\ create = IdleCreate
    /\ net = NoRequest
    /\ notices = << >>
    /\ used = [runs |-> 0, syncs |-> 0, edits |-> 0, creates |-> 0]

NextTemplate ==
    \/ PromptForNewNote
    \/ \E input \in {IdA, IdB} : Submit(input)
    \/ \E resp \in PlaceResponses : CreateFetchReturn(resp)
    \/ \E ok \in BOOLEAN : ReadTemplateDone(ok)

SpecTemplate == InitTemplate /\ [][NextTemplate]_vars

\* the content the create command handed to insertOrReplaceIMDBID
Source == IF create.templatePath # "" THEN TemplateContent(create.templatePath)
          ELSE EmptyContent

\* the line that closes the header of content: the first "---" after a first
\* line "---"; 0 when content has no header
HeaderEnd(content) ==
    LET ks == {k \in 2..Len(content) : content[k] = Dashes}
    IN  IF content[1] = Dashes /\ ks # {} THEN CHOOSE k \in ks : \A j \in ks : k <= j
        ELSE 0

\* the header lines of content that carry the property
PropLines(content, prop) ==
    {j \in 2..(HeaderEnd(content) - 1) : StartsWith(content[j], PropChars(prop) \o <<":">>)}

\* what the claim says the result is
ClaimedContent(content, prop, imdbId) ==
    IF HeaderEnd(content) = 0
    THEN <<Dashes, IdLine(prop, imdbId), Dashes, << >> >> \o content
    ELSE IF PropLines(content, prop) = {}
    THEN <<Dashes, IdLine(prop, imdbId)>> \o Tail(content)
    ELSE [content EXCEPT ![CHOOSE j \in PropLines(content, prop) :
                               \A i \in PropLines(content, prop) : j <= i] =
                              IdLine(prop, imdbId)]

\* C23: the content of the new note starts with a header that has the
\* identifier property with the identifier as its value: content without a
\* header gets a minimal header in front, a header without the property gets
\* it as its first entry, an existing property gets the new value; the other
\* header lines and the body are as they were.
C23_HeaderWithId ==
    create.pc = "creating" =>
        /\ create.content = ClaimedContent(Source, settings.imdbIdProperty, create.imdbId)
        /\ HeaderOf(create.content).has
        /\ HeaderOf(create.content).fm[settings.imdbIdProperty] = Str(create.imdbId)

\* the same statement for contents whose header, if they have one, has an
\* entry and no "$$"
C23_PlainHeaders ==
    (create.pc = "creating"
        /\ create.templatePath \notin {TemplateEmptyHeader, TemplateBlankHeader, TemplateDollars}) =>
        /\ create.content = ClaimedContent(Source, settings.imdbIdProperty, create.imdbId)
        /\ HeaderOf(create.content).has
        /\ HeaderOf(create.content).fm[settings.imdbIdProperty] = Str(create.imdbId)

\* the template configured for the kind of note that the folder was chosen for
FolderTemplate ==
    IF create.folderPath = settings.newNoteFolderMovies THEN settings.templateFileMovies
    ELSE settings.templateFileSeries

\* C24: the template that is loaded is the one of the type that chose the
\* folder: the movies template for a note in the movies folder, the series
\* template for a note in the series folder, whatever type the provider
\* reports; a configured template that is not in the vault gives empty
\* content and the flow goes on.
C24_TemplateOfFolder ==
    /\ create.pc = "readtemplate" => create.templatePath = FolderTemplate
    /\ create.pc = "creating" =>
           create.content =
               insertOrReplaceIMDBID(IF IsTemplateFile(FolderTemplate)
                                     THEN TemplateContent(FolderTemplate)
                                     ELSE EmptyContent, create.imdbId)

\* the same statement for the types movie, series and episode and for records
\* without a type
C24_KnownTypes ==
    create.data["Type"] # Str(GameType) => C24_TemplateOfFolder

\* the positions of the create command after its lookup has returned a record
AfterLookup == {"mkfolder", "readtemplate", "creating", "opening", "merging"}

\* C25: invalid input and a failed lookup end the create command before any
\* change of the vault (no folder made, no note made or changed), invalid
\* input without a request; a flow that goes on makes its one request at the
\* submit, none after it, and merges the record that this request returned.
C25_Step ==
    /\ create.pc \in {"prompt", "fetching"} => notes' = notes /\ folders' = folders
    /\ (create.pc # "idle" /\ create'.pc = "idle"
            /\ create'.result \in {"invalid", "fetchfail"}) =>
           /\ create.pc \in {"prompt", "fetching"}
           /\ notes' = notes
           /\ folders' = folders
    /\ (create.pc = "prompt" /\ create'.pc = "idle" /\ create'.result = "invalid") =>
           net' = net
    /\ (create.pc = "prompt" /\ create'.pc = "fetching") =>
           net' = [by |-> "create", key |-> settings.apiKey, id |-> Str(create'.imdbId)]
    /\ create.pc \in {"fetching"} \cup AfterLookup => net' = net
    /\ (create.pc \in AfterLookup /\ create'.pc # "prompt") => create'.data = create.data
    /\ (create.pc = "merging" /\ create'.result = "created") =>
           notes'[create.file].header =
               updateNoteFrontmatter(notes[create.file].header, create.data)

C25_AbortsClean == [][C25_Step]_vars

\* a lookup has failed after its request, the vault as it was
C25_Witness ==
    /\ create.pc = "idle"
    /\ create.result = "fetchfail"
    /\ net.by = "create"
    /\ \A i \in NoteIds : notes[i].exists <=> i = 1
    /\ folders = {"Movies", "Inbox", "Templates"}

(***************************************************************************)
(* The load of the settings under every kind of stored data: lists of      *)
(* mappings that the user has edited, reordered or that an earlier version *)
(* wrote, with and without the other keys.                                 *)
(***************************************************************************)
MaxStored == 3

\* mappings as a user's data file has them
UserMappings ==
    {[omdbField |-> "Title", noteProperty |-> "name", enabled |-> FALSE],
     [omdbField |-> "Title", noteProperty |-> "title", enabled |-> TRUE],
     [omdbField |-> "Type", noteProperty |-> "kind", enabled |-> TRUE],
     [omdbField |-> "Year", noteProperty |-> "year", enabled |-> TRUE]}

UserLists == UNION {[1..n -> UserMappings] : n \in 0..MaxStored}

PersistedChoices ==
    {[keys |-> keys,
      val |-> [apiKey |-> "k", targetFolder |-> "Films", targetFolders |-> <<"Inbox">>,
               fieldMappings |-> IF "fieldMappings" \in keys THEN list ELSE << >>]] :
        keys \in SUBSET DataKeys, list \in UserLists}

InitLoad ==
    /\ settings = DEFAULT_SETTINGS
    /\ notes = [i \in NoteIds |->
                   [exists |-> TRUE, parent |-> Place(i), basename |-> BaseName(i),
                    header |-> HeaderWithId, body |-> "body"]]
    /\ folders = {"Movies", "Movies/Sub", "TV Shows", "Inbox"}
    /\ tz = 0
    /\ \E data \in PersistedChoices : stored = [data |-> data, done |-> FALSE]
    /\ batch = IdleBatch
    /\ sn = [p \in Callers |-> IdleCall]
    /\ create = IdleCreate
    /\ net = NoRequest
    /\ notices = << >>
    /\ used = [runs |-> 0, syncs |-> 0, edits |-> 0, creates |-> 0]

NextLoad == LoadSettings

SpecLoad == InitLoad /\ [][NextLoad]_vars

\* the field names of a list of mappings, and whether none occurs twice
FieldNames(mappings) == {mappings[i].omdbField : i \in 1..Len(mappings)}

UniqueFields(mappings) ==
    \A i, j \in 1..Len(mappings) : mappings[i].omdbField = mappings[j].omdbField => i = j

\* C26: the load keeps every mapping of the stored list with its values at
\* its place, appends after them each default mapping whose field name the
\* stored list does not have, once, and nothing else; no stored mapping is
\* removed or overwritten, and unique field names stay unique.
C26_AdditiveMigration ==
    (stored.done /\ "fieldMappings" \in stored.data.keys) =>
        LET old == stored.data.val.fieldMappings
            new == settings.fieldMappings
            added == {k \in (Len(old) + 1)..Len(new) : TRUE}
        IN  /\ Len(new) >= Len(old)
            /\ SubSeq(new, 1, Len(old)) = old
            /\ \A d \in 1..Len(DefaultMappings) :
                   Cardinality({k \in added : new[k] = DefaultMappings[d]}) =
                       IF DefaultMappings[d].omdbField \in FieldNames(old) THEN 0 ELSE 1
            /\ \A k \in added : \E d \in 1..Len(DefaultMappings) : new[k] = DefaultMappings[d]
            /\ UniqueFields(old) => UniqueFields(new)

\* a list of two edited mappings has been loaded: both are in front as they
\* were, the three defaults it lacked follow
C26_Witness ==
    /\ stored.done
    /\ "fieldMappings" \in stored.data.keys
    /\ stored.data.val.fieldMappings =
           << [omdbField |-> "Type", noteProperty |-> "kind", enabled |-> TRUE],
              [omdbField |-> "Title", noteProperty |-> "name", enabled |-> FALSE] >>
    /\ Len(settings.fieldMappings) = 5
    /\ settings.fieldMappings[3].omdbField = "Year"

\* no note is twice in the list of files of the run
EachOnce(files) == \A k, l \in 1..Len(files) : files[k] = files[l] => k = l

\* no target folder is, or lies in, another one of the list
Disjoint(targets) ==
    \A k, l \in 1..Len(targets) :
        (k # l /\ targets[k] \in folders /\ targets[l] \in folders) =>
            ~IsUnder(targets[k], targets[l])

\* C27: a batch run processes each note at most once, whatever the list of
\* target folders is (a folder in it twice, a folder in it that lies in
\* another one): the N of the tally is the number of distinct notes under
\* the target folders.
C27_EachNoteOnce ==
    batch.pc \in {"run", "sleep", "done"} =>
        /\ EachOnce(batch.files)
        /\ Len(batch.files) = Cardinality(UnderTargets(batch.targets))
        /\ batch.pc = "done" =>
               batch.synced + batch.skipped + batch.errors =
                   Cardinality(UnderTargets(batch.targets))

\* the same statement for lists of target folders that do not overlap
C27_DisjointTargets == Disjoint(batch.targets) => C27_EachNoteOnce

====
